---- MODULE Spec2Model ----
(***************************************************************************)
(* Verification model of the slot-availability core of cal.com            *)
(* (AvailableSlotsService, carried in                                      *)
(* src/packages/lib/CalendarService.timezone.test.ts from line 223 on)     *)
(* and of the calendar helpers exercised by the test files beside it.      *)
(*                                                                         *)
(* Instants are integers: minutes since 2024-01-01T00:00Z.  A local       *)
(* wall-clock time is the same count read on the zone's own clock.         *)
(***************************************************************************)
EXTENDS Integers, Sequences, FiniteSets, TLC

VARIABLES
  tzInput,        \* the arguments of one dayjs.tz(localTime, zone) call and the clock
  tzOutput,       \* its result [done, utc, utcOffset]: done is FALSE before the call
  input,          \* the request of one getAvailableSlots computation (input and ctx)
  repo,           \* what the repositories answer during the computation (read only)
  selectedSlots,  \* the reservation holds in the store (SelectedSlotsRepository)
  pc,             \* the computation's position in _getAvailableSlots
  eventType,      \* the resolved event type
  avail,          \* result of the availability stage: hosts used, seats, ranges
  availableTimeSlots, \* the candidate slots after the restriction schedule
  reservedSlots,  \* holds read by _getReservedSlotsAndCleanupExpired
  response,       \* what the computation returns or throws
  effects,        \* calls made on the collaborators so far
  previous,       \* the response of the computation run before this one, if any
  peer,           \* a second computation for the same event type, run concurrently
  logger,         \* the settings of the process-wide logger
  limitInput,     \* arguments and pre-fetched bookings of one limit evaluation
  limitRun,       \* its position in the loops, its LimitManagers and its result
  iCalString,     \* the argument of one addScheduleAgentClient call
  recurringInput, \* the arguments of one getOutputRecurring...Bookings call and the
                  \* bookings in the database
  recurringRun,   \* its position in the loop, the outputs collected and its result
  iCalResult      \* its result [done, value], done being FALSE before the call, and
                  \* the result [againDone, againValue] of a call on that result

tzVars == <<tzInput, tzOutput>>
slotVars == <<input, repo, selectedSlots, pc, eventType, avail, availableTimeSlots,
              reservedSlots, response, effects, previous, peer, logger>>
limitVars == <<limitInput, limitRun>>
iCalVars == <<iCalString, iCalResult>>
recurringVars == <<recurringInput, recurringRun>>
vars == <<tzInput, tzOutput, input, repo, selectedSlots, pc, eventType, avail,
          availableTimeSlots, reservedSlots, response, effects, previous,
          peer, logger, limitInput, limitRun, iCalString, iCalResult,
          recurringInput, recurringRun>>

MinutesPerDay == 24 * 60

(***************************************************************************)
(* Calendar of 2024 and zone rules                                         *)
(***************************************************************************)
\* Days of 2024 before the first of each month (2024 is a leap year).
DaysBeforeMonth == <<0, 31, 60, 91, 121, 152, 182, 213, 244, 274, 305, 335>>

\* Minute count of the wall-clock reading 2024-mm-dd hh:00.
At(mm, dd, hh) == (DaysBeforeMonth[mm] + dd - 1) * MinutesPerDay + hh * 60

Zones == {"America/New_York", "Asia/Tokyo", "Etc/GMT"}

\* America/New_York: standard offset, daylight offset, and the 2024 transitions
\* as UTC instants (02:00 local on 10 March, 02:00 local on 3 November).
NewYorkStandardOffset == -300
NewYorkDaylightOffset == -240
NewYorkDstStartUtc == At(3, 10, 2) - NewYorkStandardOffset
NewYorkDstEndUtc == At(11, 3, 2) - NewYorkDaylightOffset
TokyoOffset == 540

\* A mutant of tzOffset: one offset for the whole year, whatever the date.
TzOffsetSingle(utc, zone) ==
  CASE zone = "America/New_York" -> NewYorkStandardOffset
    [] zone = "Asia/Tokyo" -> TokyoOffset
    [] OTHER -> 0

\* The zone's UTC offset, in minutes, in effect at the instant utc.
TzOffset(utc, zone) ==
  CASE zone = "America/New_York" ->
         IF utc >= NewYorkDstStartUtc /\ utc < NewYorkDstEndUtc
           THEN NewYorkDaylightOffset
           ELSE NewYorkStandardOffset
    [] zone = "Asia/Tokyo" -> TokyoOffset
    [] OTHER -> 0

Min(a, b) == IF a <= b THEN a ELSE b
Max(a, b) == IF a >= b THEN a ELSE b

\* dayjs' fixOffset: from a wall-clock reading and a first guess o0 of the offset
\* to the instant and the offset in effect there.
FixOffset(localTs, o0, zone) ==
  LET utcGuess == localTs - o0
      o2 == TzOffset(utcGuess, zone)
      utcGuess2 == utcGuess - (o2 - o0)
      o3 == TzOffset(utcGuess2, zone)
  IN  IF o0 = o2 THEN [done |-> TRUE, utc |-> utcGuess, utcOffset |-> o0]
      ELSE IF o2 = o3 THEN [done |-> TRUE, utc |-> utcGuess2, utcOffset |-> o2]
      ELSE [done |-> TRUE, utc |-> localTs - Min(o2, o3), utcOffset |-> Max(o2, o3)]

\* dayjs.tz(localTime, zone): the first guess is the zone's offset at the clock's
\* current reading.
DayjsTz(localTs, zone, clockUtc) == FixOffset(localTs, TzOffset(clockUtc, zone), zone)

(***************************************************************************)
(* Sets and sequences                                                      *)
(***************************************************************************)
Range(seq) == {seq[i] : i \in 1..Len(seq)}

RECURSIVE SortedSeq(_)
\* The integers of S in ascending order.
SortedSeq(S) ==
  IF S = {} THEN <<>>
  ELSE LET m == CHOOSE x \in S : \A y \in S : x <= y
       IN  <<m>> \o SortedSeq(S \ {m})

(***************************************************************************)
(* The clock                                                               *)
(***************************************************************************)
\* The reading of dayjs() during the computation: 2024-03-08T12:00Z.
Now == At(3, 8, 12)

\* UTC instant -> calendar day number (days since 2024-01-01) on the zone's clock:
\* what Intl.DateTimeFormat("fr-CA", {timeZone}) prints as YYYY-MM-DD.
FormatDate(utc, zone) == (utc + TzOffset(utc, zone)) \div MinutesPerDay

(***************************************************************************)
(* Event type resolution                                                   *)
(***************************************************************************)
\* An event type as the repository's findForSlots returns it (the fields the
\* computation reads).  seatsPerTimeSlot, slotInterval, restrictionScheduleId
\* and teamId are 0 when the column is null.
BaseEventType ==
  [id |-> 1, slug |-> "30min", length |-> 30, slotInterval |-> 0, offsetStart |-> 0,
   minimumBookingNotice |-> 0, seatsPerTimeSlot |-> 0,
   onlyShowFirstAvailableSlot |-> FALSE, schedulingType |-> "NONE",
   periodType |-> "UNLIMITED", periodDays |-> 0,
   periodStartDate |-> 0, periodEndDate |-> 0,
   restrictionScheduleId |-> 0, useBookerTimezone |-> FALSE, teamId |-> 0,
   isDynamic |-> FALSE]

\* getDefaultEvent(slug): the built-in event type of dynamic group bookings.
GetDefaultEvent(slug) == [BaseEventType EXCEPT !.id = 0, !.slug = slug, !.isDynamic = TRUE]

\* A thrown TRPCError, and a returned value.
Throw(code) == [threw |-> TRUE, code |-> code, value |-> BaseEventType]
Return(v) == [threw |-> FALSE, code |-> "", value |-> v]
\* _getEventType's "return null".
ReturnNull == [threw |-> FALSE, code |-> "NULL", value |-> BaseEventType]

\* getEventTypeId: 0 stands for its "return null".
GetEventTypeId(slug, eventTypeSlug) ==
  IF eventTypeSlug = "" \/ slug = "" THEN [threw |-> FALSE, id |-> 0]
  ELSE IF repo.firstEventTypeId = 0 THEN [threw |-> TRUE, id |-> 0]
  ELSE [threw |-> FALSE, id |-> repo.firstEventTypeId]

\* eventTypeRepo.findForSlots({id}).
FindForSlots(id) ==
  IF id \in repo.eventTypeIds THEN Return([repo.eventType EXCEPT !.id = id]) ELSE ReturnNull

\* A mutant of _getEventType: without the id it goes on with the repository's
\* event type instead of returning null, and for an id it never gets null.
GetEventTypeNeverNull ==
  Return([repo.eventType EXCEPT !.id = input.eventTypeId])

\* _getEventType.
GetEventType ==
  LET slug == IF Len(input.usernameList) > 0 THEN input.usernameList[1] ELSE ""
      looked == GetEventTypeId(slug, input.eventTypeSlug)
  IN  IF input.eventTypeId # 0 THEN FindForSlots(input.eventTypeId)
      ELSE IF looked.threw THEN Throw("NOT_FOUND")
      ELSE IF looked.id = 0 THEN ReturnNull
      ELSE FindForSlots(looked.id)

\* A mutant of _getDynamicEventType: allowDynamicBooking is not looked at.
GetDynamicEventTypeUnchecked ==
  IF input.eventTypeSlug = "" THEN Throw("BAD_REQUEST")
  ELSE Return(GetDefaultEvent(input.eventTypeSlug))

\* _getDynamicEventType: the users are those findManyUsersForDynamicEventType
\* returns for the usernameList.
GetDynamicEventType ==
  IF input.eventTypeSlug = "" THEN Throw("BAD_REQUEST")
  ELSE IF \E i \in 1..Len(repo.dynamicUsers) : ~repo.dynamicUsers[i].allowDynamicBooking
    THEN Throw("UNAUTHORIZED")
  ELSE Return(GetDefaultEvent(input.eventTypeSlug))

IsDynamicBooking == Len(input.usernameList) > 1

\* _getRegularOrDynamicEventType.
GetRegularOrDynamicEventType ==
  IF IsDynamicBooking THEN GetDynamicEventType ELSE GetEventType

(***************************************************************************)
(* Hosts, availability and the fairness fallback                           *)
(***************************************************************************)
\* dayjs' t.subtract(1, "month"): the same day of the month and time of day one
\* calendar month earlier, the day clamped to that month's length.
SubtractMonth(t) ==
  LET day == t \div MinutesPerDay
      m == CHOOSE k \in 1..12 : /\ DaysBeforeMonth[k] <= day
                               /\ (k = 12 \/ day < DaysBeforeMonth[k + 1])
      dom == day - DaysBeforeMonth[m]
      prevLen == IF m = 1 THEN 31 ELSE DaysBeforeMonth[m] - DaysBeforeMonth[m - 1]
      prevStart == IF m = 1 THEN 0 - 31 ELSE DaysBeforeMonth[m - 1]
  IN  (prevStart + Min(dom, prevLen - 1)) * MinutesPerDay + (t % MinutesPerDay)

\* getStartTime: the later of the requested start and now + notice (+1 minute
\* when there is no notice).
GetStartTime(startTimeInput, minimumBookingNotice) ==
  LET startTimeMin == Now + (IF minimumBookingNotice # 0 THEN minimumBookingNotice ELSE 1)
  IN  IF startTimeMin > startTimeInput THEN startTimeMin ELSE startTimeInput

\* A host as findQualifiedHostsWithDelegationCredentials returns it.
Host(userId, isFixed) == [user |-> userId, isFixed |-> isFixed]

\* findQualifiedHostsWithDelegationCredentials: the three host lists of the
\* event type; a dynamic event type is run by its resolved users.
FindQualifiedHosts ==
  IF eventType.isDynamic
    THEN [qualifiedRRHosts |-> <<>>, allFallbackRRHosts |-> <<>>,
          fixedHosts |-> [i \in 1..Len(repo.dynamicUsers) |->
                            Host(repo.dynamicUsers[i].id, TRUE)]]
    ELSE repo.hosts

\* The part of range r inside [from, to].
Clip(r, from, to) == [start |-> Max(r.start, from), end |-> Min(r.end, to)]

\* getUsersAvailability for one user: the user's free ranges inside the window.
DateRangesOf(userId, from, to) ==
  {Clip(r, from, to) : r \in {x \in repo.free[userId] : Max(x.start, from) < Min(x.end, to)}}

\* calculateHostsAndAvailabilities: one fetch of bookings, out-of-office days
\* and working hours for the hosts over [startTime, endTime].
CalculateHostsAndAvailabilities(hosts, startTime, endTime) ==
  [allUsersAvailability |->
     [i \in 1..Len(hosts) |->
        [user |-> hosts[i].user, isFixed |-> hosts[i].isFixed,
         dateRanges |-> DateRangesOf(hosts[i].user, startTime, endTime)]],
   usersWithCredentials |-> [i \in 1..Len(hosts) |-> hosts[i].user],
   currentSeats |->
     IF eventType.seatsPerTimeSlot # 0 /\ Len(hosts) > 0
       THEN [defined |-> TRUE,
             seats |-> SelectSeq(repo.currentSeats,
                         LAMBDA b : b.startTime >= startTime /\ b.startTime <= endTime)]
       ELSE [defined |-> FALSE, seats |-> <<>>]]

\* Ranges free in both A and B.
IntersectRanges(A, B) ==
  {[start |-> Max(a.start, b.start), end |-> Min(a.end, b.end)] :
     <<a, b>> \in {p \in A \X B : Max(p[1].start, p[2].start) < Min(p[1].end, p[2].end)}}

RECURSIVE IntersectAll(_)
\* Ranges free in every set of the sequence (of at least one set).
IntersectAll(sets) ==
  IF Len(sets) = 1 THEN sets[1] ELSE IntersectRanges(sets[1], IntersectAll(Tail(sets)))

RECURSIVE SortRanges(_)
\* The ranges of S ascending by start (then by end).
SortRanges(S) ==
  IF S = {} THEN <<>>
  ELSE LET m == CHOOSE x \in S : \A y \in S :
                   x.start < y.start \/ (x.start = y.start /\ x.end <= y.end)
       IN  <<m>> \o SortRanges(S \ {m})

\* getAggregatedAvailability: hosts that are fixed (all of them unless the event
\* is round-robin) must all be free; of the round-robin hosts one suffices.
GetAggregatedAvailability(allUsersAvailability, schedulingType) ==
  LET n == Len(allUsersAvailability)
      fixedIdx == {i \in 1..n : schedulingType # "ROUND_ROBIN" \/ allUsersAvailability[i].isFixed}
      rrIdx == (1..n) \ fixedIdx
      fixedSeq == [k \in 1..Cardinality(fixedIdx) |->
                     allUsersAvailability[SortedSeq(fixedIdx)[k]].dateRanges]
      fixedRanges == IF fixedIdx = {} THEN {} ELSE IntersectAll(fixedSeq)
      rrRanges == UNION {allUsersAvailability[i].dateRanges : i \in rrIdx}
  IN  SortRanges(
        IF fixedRanges # {} /\ rrIdx # {} THEN IntersectRanges(fixedRanges, rrRanges)
        ELSE IF rrIdx # {} THEN rrRanges
        ELSE fixedRanges)

TwoWeeksFromNow == Now + 14 * MinutesPerDay

\* dayjs' a.diff(b, "day"): whole days from b to a, truncated towards zero.
DiffDays(a, b) ==
  IF a >= b THEN (a - b) \div MinutesPerDay ELSE 0 - ((b - a) \div MinutesPerDay)

\* The "diff" of lines 1238-1241 when the requested window starts within two
\* weeks: whole days from the two-week mark to the earliest aggregated range.
FairnessDiff(aggregatedAvailability) ==
  IF Len(aggregatedAvailability) > 0
    THEN DiffDays(aggregatedAvailability[1].start, TwoWeeksFromNow)
    ELSE 1

\* Lines 1141-1292 of _getAvailableSlots once the time range is valid: the first
\* pass over the qualified and fixed hosts, the fairness test, and the second
\* pass over the fallback pool.
AvailabilityPasses ==
  LET hostLists == FindQualifiedHosts
      qualifiedRRHosts == hostLists.qualifiedRRHosts
      allFallbackRRHosts == hostLists.allFallbackRRHosts
      fixedHosts == hostLists.fixedHosts
      allHosts == qualifiedRRHosts \o fixedHosts
      isStartTimeInPast == input.startTime < ((Now - MinutesPerDay) \div MinutesPerDay) * MinutesPerDay
      startTimeAdjusted ==
        IF isStartTimeInPast \/ eventType.periodType # "ROLLING_WINDOW"
          THEN input.startTime
          ELSE SubtractMonth(input.startTime)
      startTime == GetStartTime(startTimeAdjusted, eventType.minimumBookingNotice)
      endTime == input.endTime
      hasFallbackRRHosts == Len(allFallbackRRHosts) > Len(qualifiedRRHosts)
      firstStart == IF hasFallbackRRHosts /\ startTime < TwoWeeksFromNow
                      THEN GetStartTime(Now, eventType.minimumBookingNotice)
                      ELSE startTime
      firstEnd == IF hasFallbackRRHosts /\ endTime < TwoWeeksFromNow
                    THEN GetStartTime(TwoWeeksFromNow, eventType.minimumBookingNotice)
                    ELSE endTime
      first == CalculateHostsAndAvailabilities(allHosts, firstStart, firstEnd)
      firstAggregated == GetAggregatedAvailability(first.allUsersAvailability,
                                                   eventType.schedulingType)
      probes == hasFallbackRRHosts /\ startTime >= TwoWeeksFromNow /\ Len(firstAggregated) = 0
      firstTwoWeeks == CalculateHostsAndAvailabilities(allHosts, Now, TwoWeeksFromNow)
      diff == IF ~hasFallbackRRHosts THEN 0
              ELSE IF startTime < TwoWeeksFromNow THEN FairnessDiff(firstAggregated)
              ELSE IF probes /\ Len(GetAggregatedAvailability(
                                      firstTwoWeeks.allUsersAvailability,
                                      eventType.schedulingType)) = 0 THEN 1
              ELSE 0
      second == CalculateHostsAndAvailabilities(allFallbackRRHosts \o fixedHosts,
                                                startTime, endTime)
      used == IF diff > 0 THEN second ELSE first
  IN  [startTime |-> startTime, endTime |-> endTime,
       hasFallbackRRHosts |-> hasFallbackRRHosts,
       firstAggregated |-> firstAggregated,
       diff |-> diff,
       fallbackUsed |-> diff > 0,
       allUsersAvailability |-> used.allUsersAvailability,
       usersWithCredentials |-> used.usersWithCredentials,
       currentSeats |-> used.currentSeats,
       aggregatedAvailability |->
         IF diff > 0
           THEN GetAggregatedAvailability(second.allUsersAvailability,
                                          eventType.schedulingType)
           ELSE firstAggregated,
       fetches |-> 1 + (IF probes THEN 1 ELSE 0) + (IF diff > 0 THEN 1 ELSE 0)]

(***************************************************************************)
(* Slot generation and the restriction schedule                            *)
(***************************************************************************)
EventLength == IF input.duration # 0 THEN input.duration ELSE eventType.length

Frequency ==
  IF eventType.slotInterval # 0 THEN eventType.slotInterval ELSE EventLength

\* getSlots: start times at frequency spacing inside each aggregated range,
\* shifted by offsetStart, none earlier than now + minimumBookingNotice; in
\* ascending order, each once.
GetSlots(eventLength, offsetStart, dateRanges, minimumBookingNotice, frequency) ==
  SortedSeq(UNION {
    {t \in (r.start + offsetStart)..(r.end - eventLength) :
        /\ (t - (r.start + offsetStart)) % frequency = 0
        /\ t >= Now + minimumBookingNotice} : r \in Range(dateRanges)})

\* A mutant of lines 1356-1365: only the slot's start is looked for in a range.
StartsWithinRestriction(time, eventLength, restrictionRanges) ==
  \E range \in restrictionRanges :
    /\ time >= range.start
    /\ time <= range.end

\* Lines 1356-1365: a slot is kept when one restriction range contains
\* [start, start + eventLength], endpoints included.
WithinRestriction(time, eventLength, restrictionRanges) ==
  \E range \in restrictionRanges :
    /\ time >= range.start
    /\ time + eventLength <= range.end

\* Lines 1309-1371: the slots left by the restriction schedule, or BAD_REQUEST
\* when the schedule has no time zone and the booker's is not to be used.
ApplyRestrictionSchedule(timeSlots) ==
  IF eventType.restrictionScheduleId # 0 /\ repo.restriction.featureEnabled
    THEN IF repo.restriction.found
           THEN IF ~eventType.useBookerTimezone /\ ~repo.restriction.hasTimeZone
                  THEN [threw |-> TRUE, slots |-> <<>>]
                  ELSE [threw |-> FALSE,
                        slots |-> SelectSeq(timeSlots, LAMBDA t :
                                    WithinRestriction(t, EventLength, repo.restriction.ranges))]
           ELSE [threw |-> FALSE, slots |-> timeSlots]
    ELSE [threw |-> FALSE, slots |-> timeSlots]

(***************************************************************************)
(* Reservation holds and seats                                             *)
(***************************************************************************)
\* selectedSlotsRepo.findManyUnexpiredSlots({userIds, currentTimeInUtc}).
FindManyUnexpiredSlots(userIds, currentTimeInUtc) ==
  {h \in selectedSlots : h.userId \in userIds /\ h.releaseAt > currentTimeInUtc}

\* selectedSlotsRepo.deleteManyExpiredSlots({eventTypeId, currentTimeInUtc}):
\* the store without the event type's expired holds.
DeleteManyExpiredSlots(eventTypeId, currentTimeInUtc) ==
  {h \in selectedSlots : ~(h.eventTypeId = eventTypeId /\ h.releaseAt <= currentTimeInUtc)}

\* A mutant of line 347: the requesting session's own holds are kept.
SlotsSelectedByAnyUser(unexpiredSelectedSlots, bookerClientUid) == unexpiredSelectedSlots

\* Line 347: the holds of other booker sessions.
SlotsSelectedByOtherUsers(unexpiredSelectedSlots, bookerClientUid) ==
  {slot \in unexpiredSelectedSlots : slot.uid # bookerClientUid}

\* checkForConflicts({time, busy, eventLength, currentSeats}): the slot
\* [time, time + eventLength) overlaps a busy interval.  The seat entries it is
\* handed carry attendee counts but no capacity: seatsPerTimeSlot is not among
\* its arguments.
CheckForConflicts(time, busy, eventLength, currentSeats) ==
  \E b \in busy : time < b.end /\ time + eventLength > b.start

\* Lines 1385-1387: the seat holds of this event type.
OccupiedSeats(reserved) ==
  {item \in reserved : item.isSeat /\ item.eventTypeId = eventType.id}

\* Number of seat holds starting at the instant t.
SeatsAt(occupiedSeats, t) == Cardinality({seat \in occupiedSeats : seat.slotUtcStartDate = t})

\* A mutant of line 1400: the holds are not added to the booking's count.
AttendeesWithoutHolds(attendees, n) == attendees

\* Line 1400, the attendee count of a seated booking with n holds on its slot.
AttendeesWithHolds(attendees, n) == attendees + n

\* Lines 1391-1403: every seated booking gets the holds at its start time added.
AddHoldsToCurrentSeats(seats, occupiedSeats) ==
  [i \in 1..Len(seats) |->
     [seats[i] EXCEPT !.attendees =
        AttendeesWithHolds(seats[i].attendees, SeatsAt(occupiedSeats, seats[i].startTime))]]

\* Lines 1404-1406: the holds on no seated booking's start time.
RemainingOccupiedSeats(seats, occupiedSeats) ==
  {item \in occupiedSeats :
     \A i \in 1..Len(seats) : seats[i].startTime # item.slotUtcStartDate}

\* applyOccupiedSeatsToCurrentSeats: one new seat entry per start time that has
\* holds, counting them, under a fresh uuid (uuidOf gives the one generated for
\* each start time).
ApplyOccupiedSeatsToCurrentSeats(seats, occupiedSeats, uuidOf) ==
  LET dates == SortedSeq({item.slotUtcStartDate : item \in occupiedSeats})
  IN  seats \o [k \in 1..Len(dates) |->
                  [uid |-> uuidOf[dates[k]], startTime |-> dates[k],
                   attendees |-> SeatsAt(occupiedSeats, dates[k])]]

\* Lines 1384-1415: currentSeats after the holds were folded in.
FoldReservedSeats(currentSeats, reserved, uuidOf) ==
  LET occupiedSeats == OccupiedSeats(reserved)
      counted == IF currentSeats.defined
                   THEN AddHoldsToCurrentSeats(currentSeats.seats, occupiedSeats)
                   ELSE <<>>
      rest == IF currentSeats.defined
                THEN RemainingOccupiedSeats(currentSeats.seats, occupiedSeats)
                ELSE occupiedSeats
  IN  IF reserved # {} /\ occupiedSeats # {}
        THEN [defined |-> TRUE,
              seats |-> ApplyOccupiedSeatsToCurrentSeats(counted, rest, uuidOf)]
        ELSE currentSeats

\* The start times that get a fresh seat entry, hence a uuid() call.
NewSeatDates(currentSeats, reserved) ==
  LET occupiedSeats == OccupiedSeats(reserved)
  IN  IF reserved = {} \/ occupiedSeats = {} THEN {}
      ELSE {item.slotUtcStartDate :
              item \in (IF currentSeats.defined
                          THEN RemainingOccupiedSeats(currentSeats.seats, occupiedSeats)
                          ELSE occupiedSeats)}

\* Lines 1416-1421: the non-seat holds as busy intervals.
BusySlotsFromReservedSlots(reserved) ==
  {[start |-> c.slotUtcStartDate, end |-> c.slotUtcEndDate] : c \in {x \in reserved : ~x.isSeat}}

\* Lines 1423-1450: with holds read, the slots that conflict with none.
FilterReserved(slots, reserved, seatsForCheck) ==
  IF reserved # {}
    THEN SelectSeq(slots, LAMBDA t :
           ~CheckForConflicts(t, BusySlotsFromReservedSlots(reserved), EventLength,
                              seatsForCheck))
    ELSE slots

(***************************************************************************)
(* Grouping by booker date and the period bounds                           *)
(***************************************************************************)
\* Lines 1462-1472, 1489: the seat entry of the instant t in currentSeatsMap (of
\* several entries with one start time the last one set wins).
HasSeatEntry(currentSeats, t) ==
  currentSeats.defined /\ \E i \in 1..Len(currentSeats.seats) : currentSeats.seats[i].startTime = t

SeatEntryAt(currentSeats, t) ==
  LET idx == {i \in 1..Len(currentSeats.seats) : currentSeats.seats[i].startTime = t}
  IN  currentSeats.seats[CHOOSE i \in idx : \A j \in idx : j <= i]

\* Lines 1491-1498: the slot as emitted; attendees and bookingUid are present
\* only when hasAttendees.
SlotOutput(t, currentSeats) ==
  IF HasSeatEntry(currentSeats, t)
    THEN [time |-> t, hasAttendees |-> TRUE,
          attendees |-> SeatEntryAt(currentSeats, t).attendees,
          bookingUid |-> SeatEntryAt(currentSeats, t).uid]
    ELSE [time |-> t, hasAttendees |-> FALSE, attendees |-> 0, bookingUid |-> ""]

\* A mutant of the date formatter: the UTC date, whatever the booker's zone.
DateStringUtc(time) == time \div MinutesPerDay

\* Lines 1454-1459, 1481: the slot's date in the booker's time zone.
DateString(time) == FormatDate(time, input.timeZone)

RECURSIVE MapSlotsReduce(_, _, _)
\* Lines 1474-1502: the reduce over availableTimeSlots.  The record r is a
\* sequence of [date, slots] entries in the order the keys were created.
MapSlotsReduce(slots, r, currentSeats) ==
  IF slots = <<>> THEN r
  ELSE LET time == Head(slots)
           dateString == DateString(time)
           r1 == IF \E i \in 1..Len(r) : r[i].date = dateString
                   THEN r
                   ELSE Append(r, [date |-> dateString, slots |-> <<>>])
           at == CHOOSE i \in 1..Len(r1) : r1[i].date = dateString
           r2 == IF eventType.onlyShowFirstAvailableSlot /\ Len(r1[at].slots) > 0
                   THEN r1
                   ELSE [r1 EXCEPT ![at].slots = Append(@, SlotOutput(time, currentSeats))]
       IN  MapSlotsReduce(Tail(slots), r2, currentSeats)

\* _mapSlotsToDate.
MapSlotsToDate(slots, currentSeats) == MapSlotsReduce(slots, <<>>, currentSeats)

\* calculatePeriodLimits: the last bookable calendar day in the booker's zone
\* (ROLLING, ROLLING_WINDOW) or the bookable range (RANGE).
CalculatePeriodLimits(slotsMappedToDate) ==
  LET today == FormatDate(Now, input.timeZone)
      bookable == {slotsMappedToDate[i].date : i \in 1..Len(slotsMappedToDate)}
      upcoming == SortedSeq({d \in bookable : d >= today})
  IN  [rollingEndDay |->
         IF eventType.periodType = "ROLLING" THEN today + eventType.periodDays
         ELSE IF Len(upcoming) = 0 THEN today
         ELSE upcoming[Min(Max(eventType.periodDays, 1), Len(upcoming))],
       rangeStart |-> eventType.periodStartDate,
       rangeEnd |-> eventType.periodEndDate]

\* isTimeViolatingFutureLimit.
IsTimeViolatingFutureLimit(time, periodLimits) ==
  CASE eventType.periodType \in {"ROLLING", "ROLLING_WINDOW"} ->
         FormatDate(time, input.timeZone) > periodLimits.rollingEndDay
    [] eventType.periodType = "RANGE" ->
         time < periodLimits.rangeStart \/ time > periodLimits.rangeEnd
    [] OTHER -> FALSE

\* The clock isTimeOutOfBounds reads (new Date()) while the slots of the k-th
\* visited date are checked: the time captured at the start of the computation,
\* or later by the delay the computation has run into since.
ClockAtBoundsCheck(k) ==
  IF k > repo.clock.after THEN Now + repo.clock.delay ELSE Now

\* isTimeOutOfBounds throws BookingDateInPastError for a time already past.
IsBookingDateInPast(time, clock) == time < clock

\* isTimeOutOfBounds otherwise: the time is within the minimum booking notice.
IsTimeOutOfBounds(time, minimumBookingNotice, clock) ==
  time < clock + minimumBookingNotice

\* doesRangeStartFromToday.
DoesRangeStartFromToday(periodType) ==
  periodType = "ROLLING_WINDOW" \/ periodType = "ROLLING"

\* Lines 1553-1561 without the instanceof test: whatever isTimeOutOfBounds
\* raises is rethrown as it is.
RethrowUnchanged(raisesInPast, raisesOther) ==
  IF raisesOther THEN "UNKNOWN_ERROR"
  ELSE IF raisesInPast THEN "BOOKING_DATE_IN_PAST"
  ELSE ""

\* Lines 1547-1561: the error the filter of one date leaves with, "" for none.
\* BookingDateInPastError becomes BAD_REQUEST, anything else is rethrown.
BoundsCheckError(raisesInPast, raisesOther) ==
  IF raisesOther THEN "UNKNOWN_ERROR"
  ELSE IF raisesInPast THEN "BAD_REQUEST"
  ELSE ""

RECURSIVE WithinBoundsLoopStoppingAfterAnyDrop(_, _, _, _, _)
\* Lines 1537-1578 with the flag set by every slot filtered out, whether for
\* the future limit or for the minimum notice.
WithinBoundsLoopStoppingAfterAnyDrop(entries, acc, found, periodLimits, k) ==
  IF entries = <<>> THEN [threw |-> FALSE, code |-> "", slots |-> acc]
  ELSE IF found /\ DoesRangeStartFromToday(eventType.periodType)
    THEN [threw |-> FALSE, code |-> "", slots |-> acc]
  ELSE LET e == Head(entries)
           filteredSlots == SelectSeq(e.slots, LAMBDA slot :
                              /\ ~IsTimeViolatingFutureLimit(slot.time, periodLimits)
                              /\ ~IsTimeOutOfBounds(slot.time, eventType.minimumBookingNotice,
                                                    ClockAtBoundsCheck(k)))
       IN  WithinBoundsLoopStoppingAfterAnyDrop(Tail(entries),
             IF Len(filteredSlots) > 0
               THEN Append(acc, [date |-> e.date, slots |-> filteredSlots])
               ELSE acc,
             found \/ Len(filteredSlots) < Len(e.slots), periodLimits, k + 1)

RECURSIVE WithinBoundsLoop(_, _, _, _, _)
\* Lines 1537-1578: the loop over the dates, in key order; acc is the map built
\* so far, found is foundAFutureLimitViolation and k counts the visited dates.
WithinBoundsLoop(entries, acc, found, periodLimits, k) ==
  IF entries = <<>> THEN [threw |-> FALSE, code |-> "", slots |-> acc]
  ELSE IF found /\ DoesRangeStartFromToday(eventType.periodType)
    THEN [threw |-> FALSE, code |-> "", slots |-> acc]
  ELSE LET e == Head(entries)
           clock == ClockAtBoundsCheck(k)
           filteredSlots == SelectSeq(e.slots, LAMBDA slot :
                              /\ ~IsTimeViolatingFutureLimit(slot.time, periodLimits)
                              /\ ~IsTimeOutOfBounds(slot.time, eventType.minimumBookingNotice,
                                                    clock))
           violates == \E i \in 1..Len(e.slots) :
                          IsTimeViolatingFutureLimit(e.slots[i].time, periodLimits)
           error == BoundsCheckError(
                      \E i \in 1..Len(e.slots) : IsBookingDateInPast(e.slots[i].time, clock),
                      repo.faults.isTimeOutOfBounds /\ Len(e.slots) > 0)
       IN  IF error # ""
             THEN [threw |-> TRUE, code |-> error, slots |-> <<>>]
             ELSE WithinBoundsLoop(Tail(entries),
                    IF Len(filteredSlots) > 0
                      THEN Append(acc, [date |-> e.date, slots |-> filteredSlots])
                      ELSE acc,
                    found \/ violates, periodLimits, k + 1)

\* _mapWithinBoundsSlotsToDate.
MapWithinBoundsSlotsToDate(slotsMappedToDate) ==
  WithinBoundsLoop(slotsMappedToDate, <<>>, FALSE,
                   CalculatePeriodLimits(slotsMappedToDate), 1)

(***************************************************************************)
(* The limit evaluator, getBusyTimesFromLimitsForUsers                     *)
(*                                                                         *)
(* Dates are day numbers, day 0 being Monday 1 January 2024; a booking     *)
(* counts for the day it starts on.                                        *)
(***************************************************************************)
\* descendingLimitKeys, each key by its unit (intervalLimitKeyToUnit).
DescendingLimitKeys == <<"day", "week", "month", "year">>

MonthOf(day) ==
  CHOOSE k \in 1..12 : DaysBeforeMonth[k] <= day /\ (k = 12 \/ day < DaysBeforeMonth[k + 1])

\* dayjs' startOf(unit): weeks start on Sunday.
StartOf(unit, day) ==
  CASE unit = "day" -> day
    [] unit = "week" -> day - ((day + 1) % 7)
    [] unit = "month" -> DaysBeforeMonth[MonthOf(day)]
    [] OTHER -> 0

\* The first day after the period of the unit that starts on periodStart.
NextStart(unit, periodStart) ==
  CASE unit = "day" -> periodStart + 1
    [] unit = "week" -> periodStart + 7
    [] unit = "month" -> IF MonthOf(periodStart) = 12 THEN 366
                         ELSE DaysBeforeMonth[MonthOf(periodStart) + 1]
    [] OTHER -> 366

\* getPeriodStartDatesBetween(dateFrom, dateTo, unit).
GetPeriodStartDatesBetween(dateFrom, dateTo, unit) ==
  SortedSeq({StartOf(unit, d) : d \in dateFrom..dateTo})

\* LimitManager.createKey.
CreateKey(start, unit) == [unit |-> unit, start |-> StartOf(unit, start)]

\* LimitManager.isAlreadyBusy: the period, or a coarser period around it, is
\* marked (a week counts as inside a month when both its ends are).
IsAlreadyBusy(busyMap, start, unit) ==
  \/ CreateKey(start, "year") \in busyMap
  \/ /\ unit = "month"
     /\ CreateKey(start, "month") \in busyMap
  \/ /\ unit = "week"
     /\ \/ /\ CreateKey(start, "month") \in busyMap
           /\ CreateKey(NextStart("week", StartOf("week", start)) - 1, "month") \in busyMap
        \/ CreateKey(start, "week") \in busyMap
  \/ /\ unit = "day"
     /\ \/ CreateKey(start, "month") \in busyMap
        \/ CreateKey(start, "week") \in busyMap
        \/ CreateKey(start, "day") \in busyMap

\* LimitManager.addBusyTime.
AddBusyTime(busyMap, start, unit) == busyMap \cup {CreateKey(start, unit)}

\* isBookingWithinPeriod.
IsBookingWithinPeriod(booking, periodStart, unit) ==
  periodStart <= booking.day /\ booking.day < NextStart(unit, periodStart)

\* A mutant of the count test: the limit must be exceeded.
ReachesLimitStrictly(totalBookings, limit) == totalBookings > limit

\* Lines 594 and 652: totalBookings >= limit.
ReachesLimit(totalBookings, limit) == totalBookings >= limit

RECURSIVE CountReachesLimit(_, _, _, _, _)
\* Lines 586-598 and 644-656: the loop over the bookings of one period; TRUE
\* when it marks the period.
CountReachesLimit(bookings, periodStart, unit, totalBookings, limit) ==
  IF bookings = <<>> THEN FALSE
  ELSE IF ~IsBookingWithinPeriod(Head(bookings), periodStart, unit)
    THEN CountReachesLimit(Tail(bookings), periodStart, unit, totalBookings, limit)
  ELSE IF ReachesLimit(totalBookings + 1, limit) THEN TRUE
  ELSE CountReachesLimit(Tail(bookings), periodStart, unit, totalBookings + 1, limit)

\* A mutant of the duration test: reaching the limit is enough.
ReachesDurationLimit(totalDuration, limit) == totalDuration >= limit

\* Lines 674, 687 and 703: the minutes are over the limit.
ExceedsDurationLimit(totalDuration, limit) == totalDuration > limit

\* Line 672: (duration || eventType.length) ?? 0, duration being 0 when the
\* request has none.
SelectedDuration(duration, length) == IF duration # 0 THEN duration ELSE length

RECURSIVE DurationExceedsLimit(_, _, _, _, _)
\* Lines 699-710: the loop summing the minutes of the bookings of one period.
DurationExceedsLimit(bookings, periodStart, unit, totalDuration, limit) ==
  IF bookings = <<>> THEN FALSE
  ELSE IF ~IsBookingWithinPeriod(Head(bookings), periodStart, unit)
    THEN DurationExceedsLimit(Tail(bookings), periodStart, unit, totalDuration, limit)
  ELSE IF ExceedsDurationLimit(totalDuration + Head(bookings).minutes, limit) THEN TRUE
  ELSE DurationExceedsLimit(Tail(bookings), periodStart, unit,
                            totalDuration + Head(bookings).minutes, limit)

\* One iteration of the loops: the pass (op), the user, the unit of the limit
\* key and the period start.
LimitStep(op, user, unit, periodStart) ==
  [op |-> op, user |-> user, unit |-> unit, periodStart |-> periodStart]

\* The iterations "for key of descendingLimitKeys / for periodStart of
\* periodStartDates" over the limits that are set (0: not set).
StepsOfKey(in, limits, op, user, unit) ==
  IF limits[unit] = 0 THEN <<>>
  ELSE LET periodStartDates == GetPeriodStartDatesBetween(in.dateFrom, in.dateTo, unit)
       IN  [i \in 1..Len(periodStartDates) |-> LimitStep(op, user, unit, periodStartDates[i])]

\* The loop over the keys taken from the coarsest to the finest.
StepsOfCoarsestFirst(in, limits, op, user) ==
  StepsOfKey(in, limits, op, user, DescendingLimitKeys[4])
    \o StepsOfKey(in, limits, op, user, DescendingLimitKeys[3])
    \o StepsOfKey(in, limits, op, user, DescendingLimitKeys[2])
    \o StepsOfKey(in, limits, op, user, DescendingLimitKeys[1])

StepsOf(in, limits, op, user) ==
  StepsOfKey(in, limits, op, user, DescendingLimitKeys[1])
    \o StepsOfKey(in, limits, op, user, DescendingLimitKeys[2])
    \o StepsOfKey(in, limits, op, user, DescendingLimitKeys[3])
    \o StepsOfKey(in, limits, op, user, DescendingLimitKeys[4])

NoLimits == [day |-> 0, week |-> 0, month |-> 0, year |-> 0]

RECURSIVE StepsOfUsers(_, _)
\* Lines 603-716: per user a new LimitManager, the booking pass, the duration
\* pass, and the entry in userBusyTimesMap.
StepsOfUsers(in, users) ==
  IF users = <<>> THEN <<>>
  ELSE <<LimitStep("begin", Head(users), "", 0)>>
         \o StepsOf(in, in.bookingLimits, "bookings", Head(users))
         \o StepsOf(in, in.durationLimits, "durations", Head(users))
         \o <<LimitStep("finish", Head(users), "", 0)>>
         \o StepsOfUsers(in, Tail(users))

\* All iterations of one call on the arguments in, in order; none when neither
\* limit is given (lines 552-554).
LimitStepsOf(in) ==
  IF in.bookingLimits = NoLimits /\ in.durationLimits = NoLimits
    THEN <<>>
    ELSE StepsOf(in, in.bookingLimits, "global", 0) \o StepsOfUsers(in, in.users)

\* The iterations of the call under way: limitRun carries them from its start.
LimitSteps == limitRun.steps

LimitStepAt == LimitSteps[limitRun.at]

\* Where a "break" out of the loop over the period starts continues.
AfterBreak(at) ==
  LET later == {j \in (at + 1)..Len(LimitSteps) :
                  \/ LimitSteps[j].op # LimitSteps[at].op
                  \/ LimitSteps[j].unit # LimitSteps[at].unit}
  IN  IF later = {} THEN Len(LimitSteps) + 1
      ELSE CHOOSE j \in later : \A k \in later : j <= k

UserBookings(user) ==
  SelectSeq(limitInput.bookings, LAMBDA booking : booking.userId = user)

\* Lines 582-599: one period of the pass over the bookings of all users.
EvaluateGlobalPeriod ==
  /\ limitRun.at <= Len(LimitSteps)
  /\ LimitStepAt.op = "global"
  /\ LET periodStart == LimitStepAt.periodStart
         unit == LimitStepAt.unit
         marks ==
           /\ ~IsAlreadyBusy(limitRun.globalLimitManager, periodStart, unit)
           /\ CountReachesLimit(limitInput.bookings, periodStart, unit, 0,
                                limitInput.bookingLimits[unit])
     IN  limitRun' = [limitRun EXCEPT
                        !.at = @ + 1,
                        !.globalLimitManager =
                          IF marks THEN AddBusyTime(@, periodStart, unit) ELSE @]
  /\ UNCHANGED <<limitInput, slotVars, tzVars, iCalVars, recurringVars>>

\* Lines 604-607 with one LimitManager used for all users: the marks of the
\* users before stay in it.
BeginUserOnSharedManager ==
  /\ limitRun.at <= Len(LimitSteps)
  /\ LimitStepAt.op = "begin"
  /\ limitRun' = [limitRun EXCEPT
                    !.at = @ + 1,
                    !.limitManager = @ \cup limitRun.globalLimitManager]
  /\ UNCHANGED <<limitInput, slotVars, tzVars, iCalVars, recurringVars>>

\* Lines 604-607: the user's LimitManager starts from the global one.
BeginUser ==
  /\ limitRun.at <= Len(LimitSteps)
  /\ LimitStepAt.op = "begin"
  /\ limitRun' = [limitRun EXCEPT !.at = @ + 1, !.limitManager = limitRun.globalLimitManager]
  /\ UNCHANGED <<limitInput, slotVars, tzVars, iCalVars, recurringVars>>

\* Lines 617-657: one period of the user's booking-count pass.
EvaluateUserBookingPeriod ==
  /\ limitRun.at <= Len(LimitSteps)
  /\ LimitStepAt.op = "bookings"
  /\ LET periodStart == LimitStepAt.periodStart
         unit == LimitStepAt.unit
         user == LimitStepAt.user
         limit == limitInput.bookingLimits[unit]
         skipped == IsAlreadyBusy(limitRun.limitManager, periodStart, unit)
         marks ==
           /\ ~skipped
           /\ IF unit = "year"
                THEN user \in limitInput.yearLimitReached
                ELSE CountReachesLimit(UserBookings(user), periodStart, unit, 0, limit)
         busyMap == IF marks THEN AddBusyTime(limitRun.limitManager, periodStart, unit)
                    ELSE limitRun.limitManager
         periodStartDates ==
           GetPeriodStartDatesBetween(limitInput.dateFrom, limitInput.dateTo, unit)
         breaks ==
           /\ unit = "year"
           /\ marks
           /\ \A i \in 1..Len(periodStartDates) : IsAlreadyBusy(busyMap, periodStartDates[i], unit)
     IN  limitRun' = [limitRun EXCEPT
                        !.at = IF breaks THEN AfterBreak(@) ELSE @ + 1,
                        !.limitManager = busyMap]
  /\ UNCHANGED <<limitInput, slotVars, tzVars, iCalVars, recurringVars>>

\* Lines 669-711: one period of the user's duration pass.
EvaluateUserDurationPeriod ==
  /\ limitRun.at <= Len(LimitSteps)
  /\ LimitStepAt.op = "durations"
  /\ LET periodStart == LimitStepAt.periodStart
         unit == LimitStepAt.unit
         user == LimitStepAt.user
         limit == limitInput.durationLimits[unit]
         selectedDuration == limitInput.selectedDuration
         skipped == IsAlreadyBusy(limitRun.limitManager, periodStart, unit)
         tooLong == ExceedsDurationLimit(selectedDuration, limit)
         marks ==
           /\ ~skipped
           /\ \/ tooLong
              \/ IF unit = "year"
                   THEN ExceedsDurationLimit(limitInput.totalYearlyDuration + selectedDuration,
                                             limit)
                   ELSE DurationExceedsLimit(UserBookings(user), periodStart, unit,
                                             selectedDuration, limit)
         busyMap == IF marks THEN AddBusyTime(limitRun.limitManager, periodStart, unit)
                    ELSE limitRun.limitManager
         periodStartDates ==
           GetPeriodStartDatesBetween(limitInput.dateFrom, limitInput.dateTo, unit)
         breaks ==
           /\ unit = "year"
           /\ marks
           /\ ~tooLong
           /\ \A i \in 1..Len(periodStartDates) : IsAlreadyBusy(busyMap, periodStartDates[i], unit)
     IN  limitRun' = [limitRun EXCEPT
                        !.at = IF breaks THEN AfterBreak(@) ELSE @ + 1,
                        !.limitManager = busyMap]
  /\ UNCHANGED <<limitInput, slotVars, tzVars, iCalVars, recurringVars>>

\* Line 715: userBusyTimesMap.set(user.id, limitManager.getBusyTimes()).
FinishUser ==
  /\ limitRun.at <= Len(LimitSteps)
  /\ LimitStepAt.op = "finish"
  /\ limitRun' = [limitRun EXCEPT
                    !.at = @ + 1,
                    !.userBusyTimesMap =
                      {e \in @ : e.userId # LimitStepAt.user}
                        \cup {[userId |-> LimitStepAt.user, busyTimes |-> limitRun.limitManager]},
                    !.returned = IF limitRun.at = Len(LimitSteps) THEN "map" ELSE @]
  /\ UNCHANGED <<limitInput, slotVars, tzVars, iCalVars, recurringVars>>

LimitNext ==
  \/ EvaluateGlobalPeriod
  \/ BeginUser
  \/ EvaluateUserBookingPeriod
  \/ EvaluateUserDurationPeriod
  \/ FinishUser

\* No limit evaluation under way.
NoLimitInput ==
  [users |-> <<>>, bookingLimits |-> NoLimits, durationLimits |-> NoLimits,
   bookings |-> <<>>, dateFrom |-> 0, dateTo |-> 0, yearLimitReached |-> {},
   selectedDuration |-> 0, totalYearlyDuration |-> 0]

\* returned: "none" while the call runs, "map" once it has returned
\* userBusyTimesMap (at once at line 553 when no limit is given), "undefined"
\* once it has returned without a value.
NewLimitRun(in) ==
  [steps |-> LimitStepsOf(in), at |-> 1, globalLimitManager |-> {}, limitManager |-> {},
   userBusyTimesMap |-> {},
   returned |-> IF LimitStepsOf(in) = <<>> THEN "map" ELSE "none"]

(***************************************************************************)
(* getBusyTimesFromTeamLimitsForUsers, one loop iteration per step         *)
(***************************************************************************)
RECURSIVE TeamStepsOfUsers(_, _)
\* Lines 789-861: per user a new LimitManager, the booking pass, and the entry
\* in userBusyTimesMap.
TeamStepsOfUsers(in, users) ==
  IF users = <<>> THEN <<>>
  ELSE <<LimitStep("teamBegin", Head(users), "", 0)>>
         \o StepsOf(in, in.bookingLimits, "teamBookings", Head(users))
         \o <<LimitStep("teamFinish", Head(users), "", 0)>>
         \o TeamStepsOfUsers(in, Tail(users))

\* All iterations of one call on the arguments in, in order, and the return
\* of line 864.
TeamLimitStepsOf(in) ==
  StepsOf(in, in.bookingLimits, "teamGlobal", 0)
    \o TeamStepsOfUsers(in, in.users)
    \o <<LimitStep("teamReturn", 0, "", 0)>>

NewTeamLimitRun(in) ==
  [steps |-> TeamLimitStepsOf(in), at |-> 1, globalLimitManager |-> {}, limitManager |-> {},
   userBusyTimesMap |-> {}, returned |-> "none"]

\* Lines 768-784: one period of the pass over the team bookings of all users.
EvaluateTeamGlobalPeriod ==
  /\ limitRun.at <= Len(LimitSteps)
  /\ LimitStepAt.op = "teamGlobal"
  /\ LET periodStart == LimitStepAt.periodStart
         unit == LimitStepAt.unit
         marks ==
           /\ ~IsAlreadyBusy(limitRun.globalLimitManager, periodStart, unit)
           /\ CountReachesLimit(limitInput.bookings, periodStart, unit, 0,
                                limitInput.bookingLimits[unit])
     IN  limitRun' = [limitRun EXCEPT
                        !.at = @ + 1,
                        !.globalLimitManager =
                          IF marks THEN AddBusyTime(@, periodStart, unit) ELSE @]
  /\ UNCHANGED <<limitInput, slotVars, tzVars, iCalVars, recurringVars>>

\* Lines 790-793: the user's LimitManager starts from the global one.
BeginTeamUser ==
  /\ limitRun.at <= Len(LimitSteps)
  /\ LimitStepAt.op = "teamBegin"
  /\ limitRun' = [limitRun EXCEPT !.at = @ + 1, !.limitManager = limitRun.globalLimitManager]
  /\ UNCHANGED <<limitInput, slotVars, tzVars, iCalVars, recurringVars>>

\* What "return;" at line 838 gives the caller of the async function.
ReturnWithoutValue == "undefined"

\* Lines 817-857: one period of the user's pass. When checkBookingLimit
\* throws for a year and every year of the window is then busy, line 838
\* returns from the function.
EvaluateTeamUserBookingPeriod ==
  /\ limitRun.at <= Len(LimitSteps)
  /\ LimitStepAt.op = "teamBookings"
  /\ LET periodStart == LimitStepAt.periodStart
         unit == LimitStepAt.unit
         user == LimitStepAt.user
         limit == limitInput.bookingLimits[unit]
         skipped == IsAlreadyBusy(limitRun.limitManager, periodStart, unit)
         marks ==
           /\ ~skipped
           /\ IF unit = "year"
                THEN user \in limitInput.yearLimitReached
                ELSE CountReachesLimit(UserBookings(user), periodStart, unit, 0, limit)
         busyMap == IF marks THEN AddBusyTime(limitRun.limitManager, periodStart, unit)
                    ELSE limitRun.limitManager
         periodStartDates ==
           GetPeriodStartDatesBetween(limitInput.dateFrom, limitInput.dateTo, unit)
         returns ==
           /\ unit = "year"
           /\ marks
           /\ \A i \in 1..Len(periodStartDates) : IsAlreadyBusy(busyMap, periodStartDates[i], unit)
     IN  limitRun' = [limitRun EXCEPT
                        !.at = IF returns THEN Len(LimitSteps) + 1 ELSE @ + 1,
                        !.limitManager = busyMap,
                        !.returned = IF returns THEN ReturnWithoutValue ELSE @]
  /\ UNCHANGED <<limitInput, slotVars, tzVars, iCalVars, recurringVars>>

\* Line 861: userBusyTimesMap.set(user.id, limitManager.getBusyTimes()).
FinishTeamUser ==
  /\ limitRun.at <= Len(LimitSteps)
  /\ LimitStepAt.op = "teamFinish"
  /\ limitRun' = [limitRun EXCEPT
                    !.at = @ + 1,
                    !.userBusyTimesMap =
                      {e \in @ : e.userId # LimitStepAt.user}
                        \cup {[userId |-> LimitStepAt.user, busyTimes |-> limitRun.limitManager]}]
  /\ UNCHANGED <<limitInput, slotVars, tzVars, iCalVars, recurringVars>>

\* Line 864: return userBusyTimesMap.
ReturnTeamBusyTimes ==
  /\ limitRun.at <= Len(LimitSteps)
  /\ LimitStepAt.op = "teamReturn"
  /\ limitRun' = [limitRun EXCEPT !.at = @ + 1, !.returned = "map"]
  /\ UNCHANGED <<limitInput, slotVars, tzVars, iCalVars, recurringVars>>

TeamLimitNext ==
  \/ EvaluateTeamGlobalPeriod
  \/ BeginTeamUser
  \/ EvaluateTeamUserBookingPeriod
  \/ FinishTeamUser
  \/ ReturnTeamBusyTimes

(***************************************************************************)
(* One getAvailableSlots computation, step by step                         *)
(***************************************************************************)
Pending == [status |-> "pending", code |-> "", slots |-> <<>>]
Failure(code) == [status |-> "error", code |-> code, slots |-> <<>>]
Success(slots) == [status |-> "ok", code |-> "", slots |-> slots]

NoAvailability ==
  [startTime |-> 0, endTime |-> 0, hasFallbackRRHosts |-> FALSE, firstAggregated |-> <<>>,
   diff |-> 0, fallbackUsed |-> FALSE, allUsersAvailability |-> <<>>,
   usersWithCredentials |-> <<>>, currentSeats |-> [defined |-> FALSE, seats |-> <<>>],
   aggregatedAvailability |-> <<>>]

NoEffects ==
  [availabilityFetches |-> 0, holdReads |-> 0, cleanups |-> 0, holdsDeleted |-> 0,
   notifications |-> 0]

\* The second computation before it has begun.
NoPeer ==
  [pc |-> "waiting", now |-> Now, bookerClientUid |-> 0, snapshot |-> {},
   currentSeats |-> [defined |-> FALSE, seats |-> <<>>], availableTimeSlots |-> <<>>,
   reservedSlots |-> {}, response |-> Pending]

\* The uuid() values one computation may draw.
Uuids == {"uuid-1", "uuid-2"}

\* Lines 1589-1608 without the try/catch: an error of the notification leaves
\* the computation.
NotifyWhenNoSlotsUncaught(withinBoundsSlots) ==
  LET attempted == withinBoundsSlots = <<>> /\ Len(input.usernameList) = 1
  IN  [attempted |-> attempted,
       threw |-> attempted /\ repo.faults.handleNotificationWhenNoSlots]

\* Lines 1589-1608: handleNotificationWhenNoSlots is called when the map within
\* bounds has no date and usernameList has one entry; what it raises is caught
\* and logged.
NotifyWhenNoSlots(withinBoundsSlots) ==
  [attempted |-> withinBoundsSlots = <<>> /\ Len(input.usernameList) = 1,
   threw |-> FALSE]

\* Lines 1110-1133: set the logger's level when INTEGRATION_TEST_MODE is
\* "true" (lines 1125-1127), then resolve the event type, or fail.
ResolveEventType ==
  /\ pc = "start"
  /\ logger' = IF repo.env.integrationTestMode
                 THEN [logger EXCEPT !.minLevel = 2]
                 ELSE logger
  /\ LET r == GetRegularOrDynamicEventType
     IN  IF r.threw
           THEN /\ pc' = "error"
                /\ response' = Failure(r.code)
                /\ UNCHANGED eventType
         ELSE IF r.code = "NULL"
           THEN /\ pc' = "error"
                /\ response' = Failure("NOT_FOUND")
                /\ UNCHANGED eventType
         ELSE /\ pc' = "resolved"
              /\ eventType' = r.value
              /\ UNCHANGED response
  /\ UNCHANGED <<input, repo, selectedSlots, avail, availableTimeSlots, reservedSlots,
                 effects, previous, peer, tzVars, limitVars, iCalVars, recurringVars>>

\* Lines 1135-1292: set the logger's level when logging is enabled for the
\* event type (lines 1137-1139), validate the time range, find the hosts, fetch
\* their availability (with the fairness fallback) and aggregate it.
ComputeAvailability ==
  /\ pc = "resolved"
  /\ logger' = IF eventType.id \in repo.env.loggingEnabledEventTypeIds
                 THEN [logger EXCEPT !.minLevel = 2]
                 ELSE logger
  /\ IF ~input.startTimeValid \/ ~input.endTimeValid
       THEN /\ pc' = "error"
            /\ response' = Failure("BAD_REQUEST")
            /\ UNCHANGED <<avail, effects>>
       ELSE LET a == AvailabilityPasses
            IN  /\ pc' = "aggregated"
                /\ avail' = [k \in DOMAIN NoAvailability |-> a[k]]
                /\ effects' = [effects EXCEPT !.availabilityFetches = @ + a.fetches]
                /\ UNCHANGED response
  /\ UNCHANGED <<input, repo, selectedSlots, eventType, availableTimeSlots, reservedSlots,
                 previous, peer, tzVars, limitVars, iCalVars, recurringVars>>

\* Lines 1294-1371: generate the slots and apply the restriction schedule.
GenerateSlots ==
  /\ pc = "aggregated"
  /\ LET timeSlots == GetSlots(EventLength, eventType.offsetStart,
                               avail.aggregatedAvailability,
                               eventType.minimumBookingNotice, Frequency)
         r == ApplyRestrictionSchedule(timeSlots)
     IN  IF r.threw
           THEN /\ pc' = "error"
                /\ response' = Failure("BAD_REQUEST")
                /\ UNCHANGED availableTimeSlots
           ELSE /\ pc' = "slotsReady"
                /\ availableTimeSlots' = r.slots
                /\ UNCHANGED response
  /\ UNCHANGED <<input, repo, selectedSlots, eventType, avail, reservedSlots, effects,
                 previous, peer, logger, tzVars, limitVars, iCalVars, recurringVars>>

\* Lines 338-347: read the unexpired holds on the hosts and drop the requesting
\* session's own.
ReadReservedSlots ==
  /\ pc = "slotsReady"
  /\ reservedSlots' = SlotsSelectedByOtherUsers(
                        FindManyUnexpiredSlots(Range(avail.usersWithCredentials), Now),
                        input.bookerClientUid)
  /\ effects' = [effects EXCEPT !.holdReads = @ + 1]
  /\ pc' = "holdsRead"
  /\ UNCHANGED <<input, repo, selectedSlots, eventType, avail, availableTimeSlots,
                 response, previous, peer, logger, tzVars, limitVars, iCalVars, recurringVars>>

\* Lines 349-357 with the time left out of the deletion: every hold of the
\* event type goes.
CleanupEveryHoldOfEventType ==
  /\ pc = "holdsRead"
  /\ LET kept == {h \in selectedSlots : h.eventTypeId # eventType.id}
     IN  /\ selectedSlots' = kept
         /\ effects' = [effects EXCEPT
                          !.cleanups = @ + 1,
                          !.holdsDeleted = @ + Cardinality(selectedSlots \ kept)]
  /\ pc' = "cleaned"
  /\ UNCHANGED <<input, repo, eventType, avail, availableTimeSlots, reservedSlots,
                 response, previous, peer, logger, tzVars, limitVars, iCalVars, recurringVars>>

\* Lines 349-357: delete the event type's expired holds. The call is awaited
\* with no catch around it (nor around line 1373), so an error the repository
\* raises leaves getAvailableSlots as it is.
CleanupExpiredSlots ==
  /\ pc = "holdsRead"
  /\ IF repo.faults.deleteManyExpiredSlots
       THEN /\ pc' = "error"
            /\ response' = Failure("UNKNOWN_ERROR")
            /\ effects' = [effects EXCEPT !.cleanups = @ + 1]
            /\ UNCHANGED selectedSlots
       ELSE LET kept == DeleteManyExpiredSlots(eventType.id, Now)
            IN  /\ pc' = "cleaned"
                /\ selectedSlots' = kept
                /\ effects' = [effects EXCEPT
                                 !.cleanups = @ + 1,
                                 !.holdsDeleted = @ + Cardinality(selectedSlots \ kept)]
                /\ UNCHANGED response
  /\ UNCHANGED <<input, repo, eventType, avail, availableTimeSlots, reservedSlots,
                 previous, peer, logger, tzVars, limitVars, iCalVars, recurringVars>>

\* Lines 1379-1635: fold the holds into the seats, drop the conflicting slots,
\* group by booker date, filter by the period bounds, notify when nothing is
\* left, and return.
FilterAndEmit ==
  /\ pc = "cleaned"
  /\ \E uuidOf \in {f \in [NewSeatDates(avail.currentSeats, reservedSlots) -> Uuids] :
                      \A x, y \in DOMAIN f : f[x] = f[y] => x = y} :
       LET currentSeats == FoldReservedSeats(avail.currentSeats, reservedSlots, uuidOf)
           filtered == FilterReserved(availableTimeSlots, reservedSlots, currentSeats)
           slotsMappedToDate == MapSlotsToDate(filtered, currentSeats)
           withinBounds == MapWithinBoundsSlotsToDate(slotsMappedToDate)
       IN  /\ avail' = [avail EXCEPT !.currentSeats = currentSeats]
           /\ availableTimeSlots' = filtered
           /\ IF withinBounds.threw
                THEN /\ pc' = "error"
                     /\ response' = Failure(withinBounds.code)
                     /\ UNCHANGED effects
                ELSE LET n == NotifyWhenNoSlots(withinBounds.slots)
                     IN  /\ effects' = [effects EXCEPT !.notifications =
                                          IF n.attempted THEN @ + 1 ELSE @]
                         /\ IF n.threw
                              THEN /\ pc' = "error"
                                   /\ response' = Failure("UNKNOWN_ERROR")
                              ELSE /\ pc' = "done"
                                   /\ response' = Success(withinBounds.slots)
  /\ UNCHANGED <<input, repo, selectedSlots, eventType, reservedSlots, previous, peer, logger,
                 tzVars, limitVars, iCalVars, recurringVars>>

\* A second call of getAvailableSlots with the same input, once the first has
\* returned or thrown: every local starts afresh, the store stays as it is.
RunAgain ==
  /\ pc \in {"done", "error"}
  /\ previous.status = "pending"
  /\ previous' = response
  /\ pc' = "start"
  /\ eventType' = BaseEventType
  /\ avail' = NoAvailability
  /\ availableTimeSlots' = <<>>
  /\ reservedSlots' = {}
  /\ response' = Pending
  /\ UNCHANGED <<input, repo, selectedSlots, effects, peer, logger, tzVars, limitVars, iCalVars, recurringVars>>

\* Lines 1379-1586 as one function of the holds read: the slot map within
\* bounds that is left of the candidate slots.
SlotsGivenHolds(slots, seats, reserved, uuidOf) ==
  LET currentSeats == FoldReservedSeats(seats, reserved, uuidOf)
      filtered == FilterReserved(slots, reserved, currentSeats)
  IN  MapWithinBoundsSlotsToDate(MapSlotsToDate(filtered, currentSeats))

\* The one-to-one assignments of uuid() values to the new seat entries.
UuidChoices(seats, reserved) ==
  {f \in [NewSeatDates(seats, reserved) -> Uuids] :
     \A x, y \in DOMAIN f : f[x] = f[y] => x = y}

\* How much later than the first computation the second may capture its
\* current time (line 338), in minutes.
PeerSkews == {0, 5}

\* The booker sessions the second computation may be for (0: none given).
PeerSessions == {0, 1, 2}

\* A second getAvailableSlots call for the same event type and window comes to
\* line 1373 with the same candidate slots, for a booker session of its own,
\* while the first has not yet read the holds.
PeerBegin ==
  /\ pc = "slotsReady"
  /\ peer.pc = "waiting"
  /\ \E skew \in PeerSkews, uid \in PeerSessions :
       peer' = [peer EXCEPT !.pc = "slotsReady", !.now = Now + skew,
                            !.bookerClientUid = uid, !.snapshot = selectedSlots,
                            !.currentSeats = avail.currentSeats,
                            !.availableTimeSlots = availableTimeSlots]
  /\ UNCHANGED <<input, repo, selectedSlots, pc, eventType, avail, availableTimeSlots,
                 reservedSlots, response, effects, previous, logger, tzVars, limitVars, iCalVars, recurringVars>>

\* Lines 338-347 in the second computation.
PeerReadReservedSlots ==
  /\ peer.pc = "slotsReady"
  /\ peer' = [peer EXCEPT
                !.pc = "holdsRead",
                !.reservedSlots = SlotsSelectedByOtherUsers(
                   FindManyUnexpiredSlots(Range(avail.usersWithCredentials), peer.now),
                   peer.bookerClientUid)]
  /\ UNCHANGED <<input, repo, selectedSlots, pc, eventType, avail, availableTimeSlots,
                 reservedSlots, response, effects, previous, logger, tzVars, limitVars, iCalVars, recurringVars>>

\* Lines 349-357 in the second computation.
PeerCleanupExpiredSlots ==
  /\ peer.pc = "holdsRead"
  /\ IF repo.faults.deleteManyExpiredSlots
       THEN /\ peer' = [peer EXCEPT !.pc = "error", !.response = Failure("UNKNOWN_ERROR")]
            /\ UNCHANGED selectedSlots
       ELSE /\ peer' = [peer EXCEPT !.pc = "cleaned"]
            /\ selectedSlots' = DeleteManyExpiredSlots(eventType.id, peer.now)
  /\ UNCHANGED <<input, repo, pc, eventType, avail, availableTimeSlots,
                 reservedSlots, response, effects, previous, logger, tzVars, limitVars, iCalVars, recurringVars>>

\* Lines 1379-1635 in the second computation.
PeerFilterAndEmit ==
  /\ peer.pc = "cleaned"
  /\ \E uuidOf \in UuidChoices(peer.currentSeats, peer.reservedSlots) :
       LET withinBounds == SlotsGivenHolds(peer.availableTimeSlots, peer.currentSeats,
                                           peer.reservedSlots, uuidOf)
       IN  peer' = IF withinBounds.threw \/ NotifyWhenNoSlots(withinBounds.slots).threw
                     THEN [peer EXCEPT !.pc = "error",
                                       !.response = Failure(withinBounds.code)]
                     ELSE [peer EXCEPT !.pc = "done",
                                       !.response = Success(withinBounds.slots)]
  /\ UNCHANGED <<input, repo, selectedSlots, pc, eventType, avail, availableTimeSlots,
                 reservedSlots, response, effects, previous, logger, tzVars, limitVars, iCalVars, recurringVars>>

(***************************************************************************)
(* getOutputRecurringBookings and its seated variants                      *)
(* (src/apps/api/v2/src/ee/bookings/2024-08-13/services/output.service.ts) *)
(***************************************************************************)
\* No call: no ids, an empty database.
NoRecurringInput ==
  [variant |-> "recurring", bookingsIds |-> <<>>, found |-> {}, startTime |-> <<>>]

\* Lines 184, 342, 358: before the loop, transformed is empty.
NewRecurringRun == [pc |-> "loop", at |-> 1, transformed |-> <<>>, result |-> <<>>]

\* bookingsRepository.getByIdWithAttendeesAndUserAndEvent and its seated and
\* by-uid variants: the booking of the id is in the database or it is not.
RecurringBookingFound(bookingId) == bookingId \in recurringInput.found

\* getOutputRecurringBooking, getOutputRecurringSeatedBooking and
\* getOutputCreateRecurringSeatedBooking: the output of one booking, of which
\* the id and the start are kept.
GetOutputRecurringBooking(bookingId) ==
  [id |-> bookingId, start |-> recurringInput.startTime[bookingId]]

\* A mutant of lines 195, 354, 369: the outputs stay in the order of the ids.
InFetchOrder(transformed) == transformed

RECURSIVE InsertByStart(_, _)
\* Array.prototype.sort is stable: an output goes behind those that start at
\* the same time and came before it.
InsertByStart(sorted, output) ==
  IF sorted = <<>> THEN <<output>>
  ELSE IF Head(sorted).start <= output.start
    THEN <<Head(sorted)>> \o InsertByStart(Tail(sorted), output)
    ELSE <<output>> \o sorted

RECURSIVE SortByStart(_)
\* Lines 195, 354, 369: transformed.sort((a, b) => start of a - start of b).
SortByStart(transformed) ==
  IF transformed = <<>> THEN <<>>
  ELSE InsertByStart(SortByStart(SubSeq(transformed, 1, Len(transformed) - 1)),
                     transformed[Len(transformed)])

\* Lines 186-193, 344-352, 360-366: one turn of the loop, fetching the booking
\* of the next id; the call throws when there is none.
FetchRecurringBooking ==
  /\ recurringRun.pc = "loop"
  /\ recurringRun.at <= Len(recurringInput.bookingsIds)
  /\ LET bookingId == recurringInput.bookingsIds[recurringRun.at]
     IN  IF ~RecurringBookingFound(bookingId)
           THEN recurringRun' = [recurringRun EXCEPT !.pc = "threw"]
           ELSE recurringRun' = [recurringRun EXCEPT
                                   !.at = @ + 1,
                                   !.transformed =
                                      Append(@, GetOutputRecurringBooking(bookingId))]
  /\ UNCHANGED <<recurringInput, tzVars, slotVars, limitVars, iCalVars>>

\* Lines 195, 354, 369: after the loop the outputs are sorted and returned.
ReturnRecurringBookings ==
  /\ recurringRun.pc = "loop"
  /\ recurringRun.at > Len(recurringInput.bookingsIds)
  /\ recurringRun' = [recurringRun EXCEPT !.pc = "returned",
                                          !.result = SortByStart(recurringRun.transformed)]
  /\ UNCHANGED <<recurringInput, tzVars, slotVars, limitVars, iCalVars>>

RecurringNext == FetchRecurringBooking \/ ReturnRecurringBookings

(***************************************************************************)
(* The requests, repository answers and stores the specifications start in *)
(***************************************************************************)
UserIds == {1, 2, 3}

\* Two slots of the default 30 minutes on 9 March: 10:00Z and 10:30Z.
T1 == At(3, 9, 10)
T2 == T1 + 30

BaseInput ==
  [usernameList |-> <<"alice">>, eventTypeId |-> 1, eventTypeSlug |-> "30min",
   timeZone |-> "Etc/GMT", startTime |-> Now, endTime |-> Now + 3 * MinutesPerDay,
   startTimeValid |-> TRUE, endTimeValid |-> TRUE, duration |-> 0,
   bookerClientUid |-> 0]

NoRestriction == [featureEnabled |-> FALSE, found |-> FALSE, hasTimeZone |-> FALSE, ranges |-> {}]

\* One fixed host, user 1, free from 10:00Z to 11:00Z on 9 March.
\* The collaborators that may raise an error, none of them doing so.
NoFaults ==
  [isTimeOutOfBounds |-> FALSE, deleteManyExpiredSlots |-> FALSE,
   handleNotificationWhenNoSlots |-> FALSE]

BaseRepo ==
  [firstEventTypeId |-> 1, eventTypeIds |-> {1}, eventType |-> BaseEventType,
   dynamicUsers |-> <<>>,
   hosts |-> [qualifiedRRHosts |-> <<>>, allFallbackRRHosts |-> <<>>,
              fixedHosts |-> <<Host(1, TRUE)>>],
   free |-> [u \in UserIds |-> IF u = 1 THEN {[start |-> T1, end |-> T1 + 60]} ELSE {}],
   currentSeats |-> <<>>,
   restriction |-> NoRestriction,
   clock |-> [after |-> 0, delay |-> 0],
   faults |-> NoFaults,
   env |-> [integrationTestMode |-> FALSE, loggingEnabledEventTypeIds |-> {},
            minLevel |-> 4]]

\* A reservation hold of 30 minutes; uid is the booker session that holds it.
Hold(uid, userId, eventTypeId, start, isSeat, releaseAt) ==
  [uid |-> uid, userId |-> userId, eventTypeId |-> eventTypeId,
   slotUtcStartDate |-> start, slotUtcEndDate |-> start + 30,
   isSeat |-> isSeat, releaseAt |-> releaseAt]

Unexpired == Now + 10
Expired == Now - 10

StartsIn(Inputs, Repos, Stores) ==
  /\ input \in Inputs
  /\ repo \in Repos
  /\ selectedSlots \in Stores
  /\ pc = "start"
  /\ eventType = BaseEventType
  /\ avail = NoAvailability
  /\ availableTimeSlots = <<>>
  /\ reservedSlots = {}
  /\ response = Pending
  /\ effects = NoEffects
  /\ previous = Pending
  /\ peer = NoPeer
  /\ logger = [minLevel |-> repo.env.minLevel]
  /\ iCalString = <<>>
  /\ iCalResult = [done |-> TRUE, value |-> <<>>, againDone |-> TRUE, againValue |-> <<>>]
  /\ recurringInput = NoRecurringInput
  /\ recurringRun = NewRecurringRun
  /\ tzInput = [local |-> 0, zone |-> "Etc/GMT", clock |-> 0]
  /\ tzOutput = [done |-> TRUE, utc |-> 0, utcOffset |-> 0]
  /\ limitInput = NoLimitInput
  /\ limitRun = NewLimitRun(limitInput)

(***************************************************************************)
(* Specification Spec: seated events and reservation holds                 *)
(***************************************************************************)
\* Largest seatsPerTimeSlot tried, and number of booker sessions holding slots.
MaxSeats == 2
MaxSessions == 2

Sessions == 1..MaxSessions

\* What one session may hold: nothing (present FALSE), a seat at 10:00Z or
\* 10:30Z, a whole slot starting 09:30Z, 10:00Z or 10:15Z (of this event type,
\* 1, or of another, 2, on the same host), a whole slot on a user who is no
\* host, or a hold that has expired.
HoldOptions ==
  {[present |-> FALSE, userId |-> 1, eventTypeId |-> 1, start |-> T1, isSeat |-> FALSE,
    releaseAt |-> Unexpired]}
  \cup [present : {TRUE}, userId : {1}, eventTypeId : {1, 2}, start : {T1, T2},
        isSeat : {TRUE}, releaseAt : {Unexpired}]
  \cup [present : {TRUE}, userId : {1}, eventTypeId : {1, 2}, start : {T1 - 30, T1, T1 + 15},
        isSeat : {FALSE}, releaseAt : {Unexpired}]
  \cup [present : {TRUE}, userId : {2}, eventTypeId : {1}, start : {T1},
        isSeat : {FALSE}, releaseAt : {Unexpired}]
  \cup [present : {TRUE}, userId : {1}, eventTypeId : {1, 2}, start : {T1},
        isSeat : {TRUE}, releaseAt : {Expired}]

SeatStores ==
  {{Hold(s, f[s].userId, f[s].eventTypeId, f[s].start, f[s].isSeat, f[s].releaseAt) :
      s \in {x \in Sessions : f[x].present}} : f \in [Sessions -> HoldOptions]}

\* seatsPerTimeSlot n (0: not seated) and a seated booking of c attendees at
\* 10:00Z that still has room (c = 0: no booking).
SeatRepos ==
  {[BaseRepo EXCEPT
      !.eventType = [BaseEventType EXCEPT !.seatsPerTimeSlot = n],
      !.currentSeats = IF c = 0 THEN <<>>
                       ELSE <<[uid |-> "booking-1", startTime |-> T1, attendees |-> c]>>] :
     <<n, c>> \in {p \in (0..MaxSeats) \X (0..MaxSeats) : p[2] = 0 \/ p[2] < p[1]}}

SeatInputs == {[BaseInput EXCEPT !.bookerClientUid = b] : b \in {0, 1}}

Init == StartsIn(SeatInputs, SeatRepos, SeatStores)

Next ==
  \/ ResolveEventType
  \/ ComputeAvailability
  \/ GenerateSlots
  \/ ReadReservedSlots
  \/ CleanupExpiredSlots
  \/ FilterAndEmit

Spec == Init /\ [][Next]_vars

\* Two calls in a row on the same input, clock and store.
SpecTwoRuns == Init /\ [][Next \/ RunAgain]_vars

\* The slots of the response, of every date.
ReturnedSlots ==
  {response.slots[i].slots[j] :
     <<i, j>> \in {p \in (1..Len(response.slots)) \X (1..2) :
                     p[2] <= Len(response.slots[p[1]].slots)}}

ReturnedTimes == {slot.time : slot \in ReturnedSlots}

\* The unexpired holds of other booker sessions on the hosts, as the store has
\* them.
HoldsOfOthers ==
  {h \in selectedSlots :
     /\ h.releaseAt > Now
     /\ h.uid # input.bookerClientUid
     /\ \E i \in 1..Len(avail.usersWithCredentials) : avail.usersWithCredentials[i] = h.userId}

Overlaps(t, h) == t < h.slotUtcEndDate /\ t + EventLength > h.slotUtcStartDate

\* Attendees of the confirmed seated booking at t, 0 without one.
ConfirmedAttendees(t) ==
  IF \E i \in 1..Len(repo.currentSeats) : repo.currentSeats[i].startTime = t
    THEN (CHOOSE e \in Range(repo.currentSeats) : e.startTime = t).attendees
    ELSE 0

\* C1: on a seated event type, every returned slot that carries an attendee
\* count carries one of at most seatsPerTimeSlot, whatever the confirmed
\* bookings and the other sessions' unexpired seat holds.
SeatsNeverOverbooked ==
  (pc = "done" /\ eventType.seatsPerTimeSlot > 0)
    => \A slot \in ReturnedSlots :
         slot.hasAttendees => slot.attendees <= eventType.seatsPerTimeSlot

\* C5: a second computation on the same input, clock and store returns the
\* slot map of the first: the same dates, times, attendee counts and
\* bookingUids.
SecondRunReturnsTheSame ==
  (previous.status # "pending" /\ pc \in {"done", "error"}) => response = previous

\* C8: a returned slot overlaps no unexpired non-seat hold of another session
\* on a host, and the requesting session's own holds change nothing: a slot
\* that overlaps no such hold of another session is returned, with the
\* attendee count made of the confirmed attendees and the other sessions' seat
\* holds of this event type alone.
HoldsOfOthersBlockOwnHoldsDoNot ==
  pc = "done" =>
    /\ \A t \in ReturnedTimes :
         ~\E h \in HoldsOfOthers : ~h.isSeat /\ Overlaps(t, h)
    /\ \A t \in {T1, T2} :
         (~\E h \in HoldsOfOthers : ~h.isSeat /\ Overlaps(t, h))
           => \E slot \in ReturnedSlots :
                /\ slot.time = t
                /\ LET seatHolds == {h \in HoldsOfOthers :
                                       /\ h.isSeat
                                       /\ h.eventTypeId = eventType.id
                                       /\ h.slotUtcStartDate = t}
                   IN  /\ slot.hasAttendees <=>
                            (ConfirmedAttendees(t) > 0 \/ seatHolds # {})
                       /\ slot.attendees = ConfirmedAttendees(t) + Cardinality(seatHolds)

\* Session 1 asks; it holds 10:15Z-10:45Z itself as a whole slot and a seat at
\* 10:30Z, session 2 holds 10:00Z-10:30Z: 10:00Z is gone, 10:30Z is returned
\* with no attendees.
OwnAndOtherHoldWitness ==
  /\ pc = "done"
  /\ input.bookerClientUid = 1
  /\ \E h \in selectedSlots :
       /\ h.uid = 1 /\ h.userId = 1 /\ h.releaseAt > Now
       /\ ~h.isSeat /\ h.slotUtcStartDate = T1 + 15
  /\ \E h \in selectedSlots :
       /\ h.uid = 2 /\ h.userId = 1 /\ h.releaseAt > Now
       /\ ~h.isSeat /\ h.slotUtcStartDate = T1
  /\ ReturnedTimes = {T2}

(***************************************************************************)
(* Specification SpecResolve: resolving the event type                     *)
(***************************************************************************)
DynamicUser(id, allowDynamicBooking) == [id |-> id, allowDynamicBooking |-> allowDynamicBooking]

\* Requests by id, by username and slug, with either missing, and for a group.
ResolveInputs ==
  {[BaseInput EXCEPT !.usernameList = u, !.eventTypeId = i, !.eventTypeSlug = sl] :
     u \in {<<>>, <<"alice">>, <<"alice", "bob">>}, i \in {0, 1, 2}, sl \in {"", "30min"}}

\* What the repositories answer: the id found for the slug (0: none), the ids
\* that have an event type, and the users found for the usernames.
ResolveRepos ==
  {[BaseRepo EXCEPT
      !.firstEventTypeId = f, !.eventTypeIds = ids, !.dynamicUsers = us,
      !.free = [u \in UserIds |-> {[start |-> T1, end |-> T1 + 60]}]] :
     f \in {0, 1, 2}, ids \in {{}, {1}},
     us \in {<<>>, <<DynamicUser(1, TRUE)>>,
             <<DynamicUser(1, TRUE), DynamicUser(2, TRUE)>>,
             <<DynamicUser(1, TRUE), DynamicUser(2, FALSE)>>}}

ResolveStores ==
  SUBSET {Hold(1, 1, 1, T1, FALSE, Expired), Hold(2, 1, 0, T2, FALSE, Expired)}

InitResolve == StartsIn(ResolveInputs, ResolveRepos, ResolveStores)

SpecResolve == InitResolve /\ [][Next]_vars

\* The three ways a request that is not for a group has no event type.
SlugOrUsernameMissing ==
  input.eventTypeId = 0 /\ (input.eventTypeSlug = "" \/ input.usernameList = <<>>)

SlugLookupFindsNothing ==
  input.eventTypeId = 0 /\ ~SlugOrUsernameMissing /\ repo.firstEventTypeId = 0

NoEventTypeForId ==
  /\ ~SlugOrUsernameMissing
  /\ ~SlugLookupFindsNothing
  /\ (IF input.eventTypeId # 0 THEN input.eventTypeId ELSE repo.firstEventTypeId)
       \notin repo.eventTypeIds

Unresolvable ==
  ~IsDynamicBooking /\ (SlugOrUsernameMissing \/ SlugLookupFindsNothing \/ NoEventTypeForId)

\* C9: a request (not for a group) whose event type cannot be resolved - slug
\* or username missing, nothing found for the slug, or no event type for the
\* id - ends in NOT_FOUND right after the resolution, with no slot map, no
\* availability fetch, no read of the holds and no cleanup of expired holds.
UnresolvedIsNotFound ==
  (Unresolvable /\ pc # "start") =>
    /\ pc = "error"
    /\ response = Failure("NOT_FOUND")
    /\ effects = NoEffects

\* The id is given, the repository has no event type for it, and the store
\* still holds the expired hold a cleanup would have deleted.
UnresolvedWitness ==
  /\ pc = "error"
  /\ response.code = "NOT_FOUND"
  /\ input.eventTypeId = 1
  /\ NoEventTypeForId
  /\ Hold(1, 1, 1, T1, FALSE, Expired) \in selectedSlots

\* C10: a group request with a slug whose user lookup returns no users ends in
\* NOT_FOUND, without a slot map.
EmptyGroupIsNotFound ==
  (IsDynamicBooking /\ input.eventTypeSlug # "" /\ repo.dynamicUsers = <<>>
     /\ pc \in {"done", "error"})
    => response = Failure("NOT_FOUND")

\* C11: a group request whose user lookup returns a user with
\* allowDynamicBooking false ends in UNAUTHORIZED right after the resolution,
\* without a slot map; when every user found allows dynamic booking, no
\* UNAUTHORIZED error is raised at any point.
DisallowingUserIsUnauthorized ==
  IsDynamicBooking =>
    /\ (/\ input.eventTypeSlug # ""
        /\ pc # "start"
        /\ \E i \in 1..Len(repo.dynamicUsers) : ~repo.dynamicUsers[i].allowDynamicBooking)
         => /\ pc = "error"
            /\ response = Failure("UNAUTHORIZED")
            /\ effects = NoEffects
    /\ (\A i \in 1..Len(repo.dynamicUsers) : repo.dynamicUsers[i].allowDynamicBooking)
         => response.code # "UNAUTHORIZED"

\* The lookup for alice and bob returned a user who allows dynamic booking and
\* one who does not.
DisallowingUserWitness ==
  /\ pc = "error"
  /\ response.code = "UNAUTHORIZED"
  /\ input.usernameList = <<"alice", "bob">>
  /\ repo.dynamicUsers = <<DynamicUser(1, TRUE), DynamicUser(2, FALSE)>>

(***************************************************************************)
(* Specification SpecTimeRange: the requested time range                   *)
(***************************************************************************)
\* Requests whose start or end does not parse, whose end lies before the
\* start (9 March 00:00Z or 7 March 12:00Z, against 8 March 12:00Z or
\* 10 March 00:00Z), and proper ones.
TimeRangeInputs ==
  {[BaseInput EXCEPT !.startTime = s, !.endTime = e,
                     !.startTimeValid = sv, !.endTimeValid = ev] :
     s \in {Now, At(3, 10, 0)},
     e \in {Now - MinutesPerDay, At(3, 9, 0), Now + 3 * MinutesPerDay},
     sv \in BOOLEAN, ev \in BOOLEAN}

\* The host is free in none, one or both of two hours: 8 March 14:00Z and
\* 10 March 10:00Z.
TimeRangeRepos ==
  {[BaseRepo EXCEPT !.free = [u \in UserIds |-> IF u = 1 THEN ranges ELSE {}]] :
     ranges \in SUBSET {[start |-> At(3, 8, 14), end |-> At(3, 8, 15)],
                        [start |-> At(3, 10, 10), end |-> At(3, 10, 11)]}}

InitTimeRange == StartsIn(TimeRangeInputs, TimeRangeRepos, {{}})

SpecTimeRange == InitTimeRange /\ [][Next]_vars

\* C12: a request whose start or end time does not parse, or whose end time is
\* before its start time, ends in BAD_REQUEST without a slot map.
InvalidTimeRangeIsBadRequest ==
  (/\ pc \in {"done", "error"}
   /\ \/ ~input.startTimeValid
      \/ ~input.endTimeValid
      \/ input.endTime < input.startTime)
    => response = Failure("BAD_REQUEST")

(***************************************************************************)
(* Specification SpecFaults: collaborators that fail, and a clock that     *)
(* moves on while the computation runs                                     *)
(***************************************************************************)
\* Minutes the clock may have moved on when the bounds are checked.
ShortDelay == 45
LongDelay == 2 * MinutesPerDay

\* Requests for one user or for two, by event type id or as a group.
FaultInputs ==
  {[BaseInput EXCEPT !.usernameList = u, !.eventTypeId = i] :
     u \in {<<"alice">>, <<"alice", "bob">>}, i \in {0, 1}}

\* Every user is free in none, one or both of two hours: today from 12:30Z
\* and tomorrow from 10:00Z. The clock has moved on by the time of the first
\* date's check, or only by the second's, or not at all; each collaborator
\* fails or does not.
FaultRepos ==
  {[BaseRepo EXCEPT
      !.dynamicUsers = <<DynamicUser(1, TRUE), DynamicUser(2, TRUE)>>,
      !.free = [u \in UserIds |-> ranges],
      !.clock = clock,
      !.faults = faults] :
     ranges \in SUBSET {[start |-> Now + 30, end |-> Now + 90],
                        [start |-> T1, end |-> T1 + 60]},
     clock \in {[after |-> 0, delay |-> 0], [after |-> 0, delay |-> ShortDelay],
                [after |-> 1, delay |-> LongDelay]},
     faults \in [DOMAIN NoFaults -> BOOLEAN]}

FaultStores ==
  SUBSET {Hold(1, 1, 1, T1, FALSE, Expired), Hold(2, 1, 1, T2, FALSE, Unexpired)}

InitFaults == StartsIn(FaultInputs, FaultRepos, FaultStores)

SpecFaults == InitFaults /\ [][Next]_vars

\* The computation has come to the period bounds and has returned or thrown.
BoundsStageReached ==
  /\ pc \in {"done", "error"}
  /\ effects.cleanups > 0
  /\ ~repo.faults.deleteManyExpiredSlots

\* The map the bounds filter was given.
GroupedForBounds == MapSlotsToDate(availableTimeSlots, avail.currentSeats)

\* The k-th date of that map holds a slot already past when it is checked.
PastViolationAt(k) ==
  \E i \in 1..Len(GroupedForBounds[k].slots) :
    GroupedForBounds[k].slots[i].time < ClockAtBoundsCheck(k)

\* The loop comes to the k-th date: it has not stopped at a date before it.
BoundsLoopVisits(k) ==
  ~(/\ DoesRangeStartFromToday(eventType.periodType)
    /\ \E j \in 1..(k - 1) : \E i \in 1..Len(GroupedForBounds[j].slots) :
         IsTimeViolatingFutureLimit(GroupedForBounds[j].slots[i].time,
                                    CalculatePeriodLimits(GroupedForBounds)))

\* C13: when the bounds filter comes to a slot that is already in the past, the
\* computation ends in BAD_REQUEST with no slot map, also when an earlier date
\* had passed the filter; when the bounds check raises any other error, the
\* computation ends in that very error.
PastSlotIsBadRequest ==
  BoundsStageReached =>
    /\ (/\ ~repo.faults.isTimeOutOfBounds
        /\ \E k \in 1..Len(GroupedForBounds) : BoundsLoopVisits(k) /\ PastViolationAt(k))
         => /\ pc = "error"
            /\ response = Failure("BAD_REQUEST")
    /\ (repo.faults.isTimeOutOfBounds /\ Len(GroupedForBounds) > 0)
         => /\ pc = "error"
            /\ response = Failure("UNKNOWN_ERROR")

PastSlotAfterPassedDateWitness ==
  /\ BoundsStageReached
  /\ response = Failure("BAD_REQUEST")
  /\ Len(GroupedForBounds) = 2
  /\ ~PastViolationAt(1)
  /\ PastViolationAt(2)

\* C14: an error raised by deleteManyExpiredSlots does not leave the
\* computation: once the deletion has been attempted and has failed, the
\* computation still goes on to return a slot map, never that error.
FailedCleanupDoesNotPropagate ==
  (/\ repo.faults.deleteManyExpiredSlots
   /\ ~repo.faults.isTimeOutOfBounds
   /\ effects.cleanups > 0)
    => /\ pc # "error" \/ response.code # "UNKNOWN_ERROR"
       /\ pc \in {"cleaned", "done", "error"}

\* C15: the zero-availability notification is attempted only by a computation
\* that returns the empty slot map for a usernameList of one entry, and that
\* computation succeeds with the empty map whether or not the notification
\* fails.
NotificationOnlyWhenEmptyAndNeverFatal ==
  effects.notifications > 0 =>
    /\ effects.notifications = 1
    /\ Len(input.usernameList) = 1
    /\ pc = "done"
    /\ response = Success(<<>>)

FailedNotificationWitness ==
  /\ effects.notifications = 1
  /\ repo.faults.handleNotificationWhenNoSlots
  /\ response = Success(<<>>)

\* C18: whatever a computation does, on the way to a result or to an error, the
\* repositories' bookings, schedules and out-of-office entries stay as they
\* are, no hold is added or altered, and the only holds removed are holds of
\* the requested event type that are expired at the computation's captured
\* time.
StoreOnlyLosesExpiredHolds ==
  [][/\ repo' = repo
     /\ selectedSlots' \subseteq selectedSlots
     /\ \A h \in selectedSlots \ selectedSlots' :
          h.eventTypeId = eventType.id /\ h.releaseAt <= Now]_vars

ExpiredHoldGoneOnFailureWitness ==
  /\ pc = "error"
  /\ effects.holdsDeleted = 1
  /\ selectedSlots = {Hold(2, 1, 1, T2, FALSE, Unexpired)}

(***************************************************************************)
(* Specification SpecConcurrent: two computations for one event type       *)
(***************************************************************************)
\* A hold that is unexpired at the first computation's captured time and
\* expired at a time captured a few minutes later.
ExpiringSoon == Now + 1

ConcurrentInputs == {[BaseInput EXCEPT !.bookerClientUid = uid] : uid \in {0, 1}}

\* Holds on the host's two slots, of the requested event type and of another
\* one, expired, about to expire and unexpired.
ConcurrentStores ==
  SUBSET {Hold(2, 1, 1, T1, FALSE, ExpiringSoon), Hold(1, 1, 1, T2, FALSE, Unexpired),
          Hold(2, 1, 1, T2, FALSE, Expired), Hold(2, 1, 2, T1, FALSE, Expired)}

InitConcurrent == StartsIn(ConcurrentInputs, {BaseRepo}, ConcurrentStores)

NextConcurrent ==
  \/ Next
  \/ PeerBegin
  \/ PeerReadReservedSlots
  \/ PeerCleanupExpiredSlots
  \/ PeerFilterAndEmit

SpecConcurrent == InitConcurrent /\ [][NextConcurrent]_vars

\* The holds a computation reads when it runs alone on the store as it was
\* when both began.
ReservedWhenAlone(currentTimeInUtc, bookerClientUid) ==
  {h \in peer.snapshot :
     /\ h.userId \in Range(avail.usersWithCredentials)
     /\ h.releaseAt > currentTimeInUtc
     /\ h.uid # bookerClientUid}

\* What a computation returns when it runs alone, for some uuid() values.
ReturnsAsAlone(returned, currentTimeInUtc, bookerClientUid) ==
  LET reserved == ReservedWhenAlone(currentTimeInUtc, bookerClientUid)
  IN  \E uuidOf \in UuidChoices(peer.currentSeats, reserved) :
        returned = Success(SlotsGivenHolds(peer.availableTimeSlots, peer.currentSeats,
                                           reserved, uuidOf).slots)

\* C16: of two computations for one event type that run concurrently, neither
\* fails, and under every interleaving of their reads and deletions of holds
\* each returns the slot map it returns when it runs alone on the store as it
\* was when they began.
ConcurrentRunsReturnAsAlone ==
  peer.pc # "waiting" =>
    /\ pc # "error"
    /\ peer.pc # "error"
    /\ pc = "done" => ReturnsAsAlone(response, Now, input.bookerClientUid)
    /\ peer.pc = "done" => ReturnsAsAlone(peer.response, peer.now, peer.bookerClientUid)

(***************************************************************************)
(* Specification SpecProcess: the process the computation runs in          *)
(***************************************************************************)
\* The environment: INTEGRATION_TEST_MODE set to "true" or not, logging
\* enabled for the event type or for none, and the level the logger runs at.
ProcessRepos ==
  {[BaseRepo EXCEPT
      !.free = [u \in UserIds |-> IF u = 1 THEN ranges ELSE {}],
      !.env = [integrationTestMode |-> mode, loggingEnabledEventTypeIds |-> ids,
               minLevel |-> level]] :
     ranges \in SUBSET {[start |-> Now + 30, end |-> Now + 90],
                        [start |-> T1, end |-> T1 + 60]},
     mode \in BOOLEAN, ids \in {{}, {1}}, level \in {2, 4}}

ProcessStores ==
  SUBSET {Hold(1, 1, 1, T1, FALSE, Expired), Hold(2, 1, 1, T2, FALSE, Unexpired)}

InitProcess == StartsIn({BaseInput}, ProcessRepos, ProcessStores)

SpecProcess == InitProcess /\ [][Next]_vars

\* C17: no step of a computation writes the settings of the process-wide
\* logger, which every other request of the process logs through.
LoggerSettingsNeverWritten == [][logger' = logger]_vars

(***************************************************************************)
(* Specification SpecGrouping: grouping the slots by the booker's date     *)
(***************************************************************************)
\* Hours of availability across midnight: of UTC (8 March 23:30Z), of New York
\* under EST (9 March 04:30Z), of Tokyo (9 March 14:30Z) and of New York under
\* EDT (11 March 03:30Z).
GroupingRanges ==
  {[start |-> At(3, 8, 23) + 30, end |-> At(3, 9, 0) + 30],
   [start |-> At(3, 9, 4) + 30, end |-> At(3, 9, 5) + 30],
   [start |-> At(3, 9, 14) + 30, end |-> At(3, 9, 15) + 30],
   [start |-> At(3, 11, 3) + 30, end |-> At(3, 11, 4) + 30]}

\* Booking windows: none, one rolling day, one available day, 9 March UTC.
GroupingPeriods ==
  {[periodType |-> "UNLIMITED", periodDays |-> 0, periodStartDate |-> 0, periodEndDate |-> 0],
   [periodType |-> "ROLLING", periodDays |-> 1, periodStartDate |-> 0, periodEndDate |-> 0],
   [periodType |-> "ROLLING_WINDOW", periodDays |-> 1, periodStartDate |-> 0,
    periodEndDate |-> 0],
   [periodType |-> "RANGE", periodDays |-> 0, periodStartDate |-> At(3, 9, 0),
    periodEndDate |-> At(3, 10, 0)]}

GroupingInputs == {[BaseInput EXCEPT !.timeZone = z] : z \in Zones}

GroupingRepos ==
  {[BaseRepo EXCEPT
      !.eventType = [BaseEventType EXCEPT
                       !.onlyShowFirstAvailableSlot = first,
                       !.periodType = p.periodType, !.periodDays = p.periodDays,
                       !.periodStartDate = p.periodStartDate,
                       !.periodEndDate = p.periodEndDate],
      !.free = [u \in UserIds |-> IF u = 1 THEN ranges ELSE {}]] :
     first \in BOOLEAN, p \in GroupingPeriods, ranges \in SUBSET GroupingRanges}

InitGrouping == StartsIn(GroupingInputs, GroupingRepos, {{}})

SpecGrouping == InitGrouping /\ [][Next]_vars

\* C6: every returned slot lies, by its wall clock in the booker's time zone,
\* on the calendar day of the key it is stored under; the keys are distinct
\* and no instant is stored under two of them.
SlotsLieOnTheirDateKey ==
  pc = "done" =>
    /\ \A i \in 1..Len(response.slots) : \A j \in 1..Len(response.slots[i].slots) :
         LET time == response.slots[i].slots[j].time
             wallClock == time + TzOffset(time, input.timeZone)
         IN  /\ response.slots[i].date * MinutesPerDay <= wallClock
             /\ wallClock < (response.slots[i].date + 1) * MinutesPerDay
    /\ \A i, k \in 1..Len(response.slots) :
         i # k =>
           /\ response.slots[i].date # response.slots[k].date
           /\ \A j \in 1..Len(response.slots[i].slots) :
                \A l \in 1..Len(response.slots[k].slots) :
                  response.slots[i].slots[j].time # response.slots[k].slots[l].time

\* A New York booker gets 11 March 03:30Z under 10 March and 04:00Z under
\* 11 March.
DateKeyWitness ==
  /\ pc = "done"
  /\ input.timeZone = "America/New_York"
  /\ \E i, k \in 1..Len(response.slots) :
       /\ response.slots[i].date = At(3, 10, 0) \div MinutesPerDay
       /\ response.slots[i].slots[1].time = At(3, 11, 3) + 30
       /\ response.slots[k].date = At(3, 11, 0) \div MinutesPerDay
       /\ response.slots[k].slots[1].time = At(3, 11, 4)

\* The slots of the list that pass the period bounds, each taken by itself.
SlotsWithinBounds(slots, periodLimits) ==
  SelectSeq(slots, LAMBDA time :
    /\ ~IsTimeViolatingFutureLimit(time, periodLimits)
    /\ ~IsTimeOutOfBounds(time, eventType.minimumBookingNotice, Now))

\* C19: the period bounds are applied to the slots left by the restriction
\* schedule and the holds before these are grouped by the booker's date: the
\* returned map is the grouping of the slots that are within bounds.
BoundsAppliedBeforeGrouping ==
  pc = "done" =>
    response.slots =
      MapSlotsToDate(
        SlotsWithinBounds(availableTimeSlots,
                          CalculatePeriodLimits(
                            MapSlotsToDate(availableTimeSlots, avail.currentSeats))),
        avail.currentSeats)

(***************************************************************************)
(* Specification SpecFallback: round-robin hosts and the fairness fallback *)
(***************************************************************************)
OneHour(start) == [start |-> start, end |-> start + 60]

\* Host 1 is the qualified round-robin host: free in the first week, one hour
\* or a day and an hour after the two-week mark (22 March 12:00Z), or later.
QualifiedRanges ==
  {OneHour(At(3, 10, 10)), OneHour(At(3, 22, 13)), OneHour(At(3, 23, 13)),
   OneHour(At(3, 26, 10))}

\* Host 2 is in the fallback pool only.
FallbackRanges == {OneHour(At(3, 10, 14)), OneHour(At(3, 24, 10))}

\* Requested windows: inside the two weeks, across the mark, beyond it.
FallbackInputs ==
  {[BaseInput EXCEPT !.startTime = w[1], !.endTime = w[2]] :
     w \in {<<Now, At(3, 15, 0)>>, <<Now, At(3, 30, 0)>>, <<At(3, 23, 0), At(3, 30, 0)>>}}

FallbackRepos ==
  {[BaseRepo EXCEPT
      !.eventType = [BaseEventType EXCEPT !.schedulingType = "ROUND_ROBIN"],
      !.hosts = [qualifiedRRHosts |-> <<Host(1, FALSE)>>,
                 allFallbackRRHosts |-> pool,
                 fixedHosts |-> fixed],
      !.free = [u \in UserIds |->
                  IF u = 1 THEN q
                  ELSE IF u = 2 THEN f
                  ELSE {[start |-> Now, end |-> At(3, 31, 0)]}]] :
     pool \in {<<Host(1, FALSE)>>, <<Host(1, FALSE), Host(2, FALSE)>>},
     fixed \in {<<>>, <<Host(3, TRUE)>>},
     q \in SUBSET QualifiedRanges, f \in SUBSET FallbackRanges}

InitFallback == StartsIn(FallbackInputs, FallbackRepos, {{}})

SpecFallback == InitFallback /\ [][Next]_vars

\* Aggregated availability of a host list over [from, to].
AggregatedOf(hosts, from, to) ==
  GetAggregatedAvailability(
    CalculateHostsAndAvailabilities(hosts, from, to).allUsersAvailability,
    eventType.schedulingType)

QualifiedAndFixed == repo.hosts.qualifiedRRHosts \o repo.hosts.fixedHosts
FallbackAndFixed == repo.hosts.allFallbackRRHosts \o repo.hosts.fixedHosts

\* The availability of the fallback pool over the requested window is the one
\* the slots are generated from.
FallbackPoolUsed ==
  /\ avail.fallbackUsed
  /\ avail.aggregatedAvailability =
       AggregatedOf(FallbackAndFixed, avail.startTime, avail.endTime)

\* C2: with a larger fallback pool, qualified and fixed hosts without any
\* aggregated availability in the next two weeks and fallback hosts available
\* in the first week, the slots are generated from the availability of the
\* fallback and fixed hosts.
FallbackWhenQualifiedBusyTwoWeeks ==
  (/\ pc \in {"aggregated", "slotsReady", "holdsRead", "cleaned", "done"}
   /\ avail.hasFallbackRRHosts
   /\ AggregatedOf(QualifiedAndFixed, Now, TwoWeeksFromNow) = <<>>
   /\ AggregatedOf(FallbackAndFixed, Now, Now + 7 * MinutesPerDay) # <<>>)
    => FallbackPoolUsed

\* C3: with a larger fallback pool, whenever the earliest aggregated range of
\* the qualified and fixed hosts starts after now + 2 weeks, or the window
\* starts beyond now + 2 weeks and they have nothing in the first two weeks,
\* the availability is recomputed from the fallback and fixed hosts over the
\* requested window and replaces the first result.
FallbackWheneverEarliestIsLater ==
  (/\ pc \in {"aggregated", "slotsReady", "holdsRead", "cleaned", "done"}
   /\ avail.hasFallbackRRHosts
   /\ \/ /\ Len(avail.firstAggregated) > 0
         /\ avail.firstAggregated[1].start > TwoWeeksFromNow
      \/ /\ avail.startTime >= TwoWeeksFromNow
         /\ AggregatedOf(QualifiedAndFixed, Now, TwoWeeksFromNow) = <<>>)
    => FallbackPoolUsed

(***************************************************************************)
(* Specification SpecLimits: one call of getBusyTimesFromLimitsForUsers    *)
(***************************************************************************)
\* Most bookings one user has on one day.
MaxBookings == 2

\* Saturday 30 March to Monday 1 April 2024: three days, two weeks, two months.
LimitDateFrom == DaysBeforeMonth[3] + 29
LimitDateTo == DaysBeforeMonth[4]

Booking(userId, day) == [userId |-> userId, day |-> day, minutes |-> 30]

\* The pre-fetched bookings by start: user 1 has c1[d] on day d, user 2 has c2
\* (none or one) on Sunday 31 March.
BookingsOf(c1, c2) ==
  [i \in 1..c1[LimitDateFrom] |-> Booking(1, LimitDateFrom)]
    \o [i \in 1..c2 |-> Booking(2, LimitDateFrom + 1)]
    \o [i \in 1..c1[LimitDateFrom + 1] |-> Booking(1, LimitDateFrom + 1)]
    \o [i \in 1..c1[LimitDateTo] |-> Booking(1, LimitDateTo)]

LimitInputs ==
  {[users |-> <<1, 2>>, bookingLimits |-> bl, durationLimits |-> dl,
    bookings |-> BookingsOf(c1, c2), dateFrom |-> LimitDateFrom, dateTo |-> LimitDateTo,
    yearLimitReached |-> y, selectedDuration |-> 30, totalYearlyDuration |-> 0] :
     bl \in [day : {0, 1, 2}, week : {0, 2}, month : {0, 3}, year : {0, 1}],
     dl \in {NoLimits, [NoLimits EXCEPT !.day = 20], [NoLimits EXCEPT !.day = 60],
             [NoLimits EXCEPT !.month = 90]},
     y \in {{}, {1}},
     c1 \in [LimitDateFrom..LimitDateTo -> 0..MaxBookings], c2 \in {0, 1}}

InitLimits ==
  /\ limitInput \in {i \in LimitInputs : i.bookingLimits.year = 1 \/ i.yearLimitReached = {}}
  /\ limitRun = NewLimitRun(limitInput)
  /\ input = BaseInput
  /\ repo = BaseRepo
  /\ selectedSlots = {}
  /\ pc = "idle"
  /\ eventType = BaseEventType
  /\ avail = NoAvailability
  /\ availableTimeSlots = <<>>
  /\ reservedSlots = {}
  /\ response = Pending
  /\ effects = NoEffects
  /\ previous = Pending
  /\ peer = NoPeer
  /\ logger = [minLevel |-> repo.env.minLevel]
  /\ iCalString = <<>>
  /\ iCalResult = [done |-> TRUE, value |-> <<>>, againDone |-> TRUE, againValue |-> <<>>]
  /\ recurringInput = NoRecurringInput
  /\ recurringRun = NewRecurringRun
  /\ tzInput = [local |-> 0, zone |-> "Etc/GMT", clock |-> 0]
  /\ tzOutput = [done |-> TRUE, utc |-> 0, utcOffset |-> 0]

SpecLimits == InitLimits /\ [][LimitNext]_vars

\* Number of the user's pre-fetched bookings inside the period.
BookingsWithin(user, periodStart, unit) ==
  Cardinality({i \in 1..Len(limitInput.bookings) :
                 /\ limitInput.bookings[i].userId = user
                 /\ periodStart <= limitInput.bookings[i].day
                 /\ limitInput.bookings[i].day < NextStart(unit, periodStart)})

\* C4: in a user's booking-count pass, a day, week or month not already marked
\* is marked exactly when the user has at least N bookings inside it; and when
\* that pass is over, a period with fewer than N bookings of the user that the
\* global pass did not mark is not in the user's busy set.
MarkedExactlyWhenCountReachesLimit ==
  /\ [][(/\ limitRun.at <= Len(LimitSteps)
         /\ LimitStepAt.op = "bookings"
         /\ LimitStepAt.unit # "year"
         /\ limitRun'.at # limitRun.at
         /\ ~IsAlreadyBusy(limitRun.limitManager, LimitStepAt.periodStart, LimitStepAt.unit))
          => (CreateKey(LimitStepAt.periodStart, LimitStepAt.unit) \in limitRun'.limitManager
                <=> BookingsWithin(LimitStepAt.user, LimitStepAt.periodStart, LimitStepAt.unit)
                      >= limitInput.bookingLimits[LimitStepAt.unit])]_vars
  /\ [](\A at \in 2..Len(LimitSteps) :
          (/\ limitRun.at = at
           /\ LimitSteps[at - 1].op \in {"bookings", "begin"}
           /\ LimitSteps[at].op \in {"durations", "finish"})
            => \A unit \in {"day", "week", "month"} :
                 \A d \in limitInput.dateFrom..limitInput.dateTo :
                   (/\ limitInput.bookingLimits[unit] # 0
                    /\ BookingsWithin(LimitSteps[at].user, StartOf(unit, d), unit)
                         < limitInput.bookingLimits[unit]
                    /\ CreateKey(d, unit) \notin limitRun.globalLimitManager)
                     => CreateKey(d, unit) \notin limitRun.limitManager)

\* User 1's week of 31 March, marked by nobody, has just been evaluated on one
\* booking against N = 2 and is left unmarked.
CountBelowLimitWitness ==
  /\ limitRun.at > 1
  /\ limitRun.at <= Len(LimitSteps) + 1
  /\ LimitSteps[limitRun.at - 1] = LimitStep("bookings", 1, "week", LimitDateFrom + 1)
  /\ limitInput.bookingLimits.week = 2
  /\ BookingsWithin(1, LimitDateFrom + 1, "week") = 1
  /\ limitRun.globalLimitManager = {}
  /\ limitRun.limitManager = {}

\* Position of a unit from the finest to the coarsest.
Coarseness(unit) ==
  CASE unit = "day" -> 1
    [] unit = "week" -> 2
    [] unit = "month" -> 3
    [] OTHER -> 4

\* The iterations of the pass (the global one, or a user's booking or duration
\* pass) that the iteration at position at belongs to.
SamePass(at) ==
  {j \in 1..Len(LimitSteps) :
     LimitSteps[j].op = LimitSteps[at].op /\ LimitSteps[j].user = LimitSteps[at].user}

TzDates == {<<1, 15>>, <<3, 8>>, <<3, 9>>, <<3, 11>>, <<3, 12>>,
            <<11, 1>>, <<11, 2>>, <<11, 4>>, <<11, 5>>}
TzHours == {9, 14, 23}
\* Clock readings of the caller: one in winter, one in summer.
TzClocks == {At(1, 15, 12), At(7, 1, 12)}

TzInit ==
  /\ tzInput \in [local : {At(d[1], d[2], h) : d \in TzDates, h \in TzHours},
                  zone : Zones, clock : TzClocks]
  /\ tzOutput = [done |-> FALSE, utc |-> 0, utcOffset |-> 0]
  /\ input = BaseInput
  /\ repo = BaseRepo
  /\ selectedSlots = {}
  /\ pc = "idle"
  /\ eventType = BaseEventType
  /\ avail = NoAvailability
  /\ availableTimeSlots = <<>>
  /\ reservedSlots = {}
  /\ response = Pending
  /\ effects = NoEffects
  /\ previous = Pending
  /\ peer = NoPeer
  /\ logger = [minLevel |-> repo.env.minLevel]
  /\ iCalString = <<>>
  /\ iCalResult = [done |-> TRUE, value |-> <<>>, againDone |-> TRUE, againValue |-> <<>>]
  /\ recurringInput = NoRecurringInput
  /\ recurringRun = NewRecurringRun
  /\ limitInput = NoLimitInput
  /\ limitRun = NewLimitRun(limitInput)

Convert ==
  /\ ~tzOutput.done
  /\ tzOutput' = DayjsTz(tzInput.local, tzInput.zone, tzInput.clock)
  /\ UNCHANGED <<tzInput, slotVars, limitVars, iCalVars, recurringVars>>

TzNext == Convert

SpecTz == TzInit /\ [][TzNext]_vars

\* C7: 14:00 in America/New_York is 19:00Z at offset -300 on a date before the
\* spring-forward transition (9 March) and 18:00Z at offset -240 after it
\* (11 March); 18:00Z at -240 before the fall-back transition (2 November) and
\* 19:00Z at -300 after it (4 November); in general the result is the wall-clock
\* reading minus the offset in effect at the resulting instant, whatever the
\* season of the caller's clock.
DstConversionUsesOffsetOfDate ==
  (tzOutput.done /\ tzInput.zone = "America/New_York") =>
    /\ tzOutput.utc + tzOutput.utcOffset = tzInput.local
    /\ tzInput.local = At(3, 9, 14) =>
         (tzOutput.utc = At(3, 9, 19) /\ tzOutput.utcOffset = -300)
    /\ tzInput.local = At(3, 11, 14) =>
         (tzOutput.utc = At(3, 11, 18) /\ tzOutput.utcOffset = -240)
    /\ tzInput.local = At(11, 2, 14) =>
         (tzOutput.utc = At(11, 2, 18) /\ tzOutput.utcOffset = -240)
    /\ tzInput.local = At(11, 4, 14) =>
         (tzOutput.utc = At(11, 4, 19) /\ tzOutput.utcOffset = -300)
    /\ (tzInput.local < At(3, 10, 2) \/ tzInput.local >= At(11, 3, 2)) =>
         tzOutput.utcOffset = -300
    /\ (tzInput.local >= At(3, 10, 3) /\ tzInput.local < At(11, 3, 1)) =>
         tzOutput.utcOffset = -240

\* Witness of C7: a 14:00 New York reading after spring-forward was converted
\* while the caller's clock stood in winter.
DstConversionWitness ==
  /\ tzOutput.done
  /\ tzInput.zone = "America/New_York"
  /\ tzInput.local = At(3, 11, 14)
  /\ tzInput.clock = At(1, 15, 12)
  /\ tzOutput.utc = At(3, 11, 18)

(***************************************************************************)
(* addScheduleAgentClient (src/packages/lib/CalendarService.test.ts)       *)
(*                                                                         *)
(* A string is a sequence of characters.  The runs of characters the       *)
(* function looks for, "ATTENDEE" and "SCHEDULE-AGENT=", and the "CLIENT"  *)
(* it writes, each stand as one element, and so does "schedule-agent=",    *)
(* the same parameter name in lower case; "CR" and "LF" are \r and \n, and *)
(* "x" is any other character.                                             *)
(***************************************************************************)
StripTrailingCR(line) ==
  IF Len(line) > 0 /\ line[Len(line)] = "CR" THEN SubSeq(line, 1, Len(line) - 1) ELSE line

RECURSIVE SplitLinesFrom(_, _)
SplitLinesFrom(rest, line) ==
  IF rest = <<>> THEN <<line>>
  ELSE IF Head(rest) = "LF"
    THEN <<StripTrailingCR(line)>> \o SplitLinesFrom(Tail(rest), <<>>)
    ELSE SplitLinesFrom(Tail(rest), Append(line, Head(rest)))

\* Line 5, iCalString.split(/\r?\n/): the pieces between the line feeds, a
\* carriage return just before a line feed belonging to the separator.
SplitLines(s) == SplitLinesFrom(s, <<>>)

\* line.startsWith("ATTENDEE").
StartsWithAttendee(line) == Len(line) > 0 /\ line[1] = "ATTENDEE"

\* line.includes("SCHEDULE-AGENT=").
IncludesScheduleAgent(line) == \E i \in 1..Len(line) : line[i] = "SCHEDULE-AGENT="

\* line.indexOf(":"), counted from 1; 0 stands for the -1 of no colon.
ColonIndex(line) ==
  IF \E i \in 1..Len(line) : line[i] = ":"
    THEN CHOOSE i \in 1..Len(line) : line[i] = ":" /\ \A j \in 1..(i - 1) : line[j] # ":"
    ELSE 0

\* ";SCHEDULE-AGENT=CLIENT".
ScheduleAgentClient == <<";", "SCHEDULE-AGENT=", "CLIENT">>

\* A mutant of line 18: the parameter is put before the last colon.
ModifyLineAtLastColon(line) ==
  IF StartsWithAttendee(line) /\ ~IncludesScheduleAgent(line) /\ ColonIndex(line) # 0
    THEN LET last == CHOOSE i \in 1..Len(line) :
                       line[i] = ":" /\ \A j \in (i + 1)..Len(line) : line[j] # ":"
         IN  SubSeq(line, 1, last - 1) \o ScheduleAgentClient \o SubSeq(line, last, Len(line))
    ELSE line

\* Lines 7-22: the callback of lines.map.
ModifyLine(line) ==
  IF StartsWithAttendee(line)
    THEN IF IncludesScheduleAgent(line) THEN line
         ELSE LET colonIndex == ColonIndex(line)
              IN  IF colonIndex = 0 THEN line
                  ELSE SubSeq(line, 1, colonIndex - 1) \o ScheduleAgentClient
                         \o SubSeq(line, colonIndex, Len(line))
    ELSE line

RECURSIVE JoinCRLF(_)
\* Line 24, modifiedLines.join("\r\n").
JoinCRLF(lines) ==
  IF Len(lines) = 0 THEN <<>>
  ELSE IF Len(lines) = 1 THEN lines[1]
  ELSE lines[1] \o <<"CR", "LF">> \o JoinCRLF(Tail(lines))

\* Lines 4-25.
AddScheduleAgentClient(s) ==
  LET lines == SplitLines(s)
  IN  JoinCRLF([i \in 1..Len(lines) |-> ModifyLine(lines[i])])

(***************************************************************************)
(* Specification SpecICal: one addScheduleAgentClient call                 *)
(***************************************************************************)
\* Longest iCalendar string tried, in characters.
MaxICalLength == 4

ICalChars == {"ATTENDEE", "SCHEDULE-AGENT=", "schedule-agent=", ":", ";", "x", "CR", "LF"}

ICalStrings == UNION {[1..n -> ICalChars] : n \in 0..MaxICalLength}

InitICal ==
  /\ iCalString \in ICalStrings
  /\ iCalResult = [done |-> FALSE, value |-> <<>>, againDone |-> FALSE, againValue |-> <<>>]
  /\ recurringInput = NoRecurringInput
  /\ recurringRun = NewRecurringRun
  /\ tzInput = [local |-> 0, zone |-> "Etc/GMT", clock |-> 0]
  /\ tzOutput = [done |-> TRUE, utc |-> 0, utcOffset |-> 0]
  /\ input = BaseInput
  /\ repo = BaseRepo
  /\ selectedSlots = {}
  /\ pc = "idle"
  /\ eventType = BaseEventType
  /\ avail = NoAvailability
  /\ availableTimeSlots = <<>>
  /\ reservedSlots = {}
  /\ response = Pending
  /\ effects = NoEffects
  /\ previous = Pending
  /\ peer = NoPeer
  /\ logger = [minLevel |-> repo.env.minLevel]
  /\ limitInput = NoLimitInput
  /\ limitRun = NewLimitRun(limitInput)

CallAddScheduleAgentClient ==
  /\ ~iCalResult.done
  /\ iCalResult' = [iCalResult EXCEPT !.done = TRUE,
                                      !.value = AddScheduleAgentClient(iCalString)]
  /\ UNCHANGED <<iCalString, tzVars, slotVars, limitVars, recurringVars>>

\* addScheduleAgentClient called on the string the first call returned.
CallAddScheduleAgentClientAgain ==
  /\ iCalResult.done
  /\ ~iCalResult.againDone
  /\ iCalResult' = [iCalResult EXCEPT !.againDone = TRUE,
                                      !.againValue = AddScheduleAgentClient(iCalResult.value)]
  /\ UNCHANGED <<iCalString, tzVars, slotVars, limitVars, recurringVars>>

ICalNext == CallAddScheduleAgentClient \/ CallAddScheduleAgentClientAgain

SpecICal == InitICal /\ [][ICalNext]_vars

\* The line gets the parameter: it starts with ATTENDEE, has a colon and has
\* no SCHEDULE-AGENT= in it.
GetsScheduleAgent(line) ==
  /\ line # <<>>
  /\ Head(line) = "ATTENDEE"
  /\ ":" \in Range(line)
  /\ "SCHEDULE-AGENT=" \notin Range(line)

\* The line out is the line in with ;SCHEDULE-AGENT=CLIENT put immediately
\* before its first colon.
HasAgentBeforeFirstColon(out, in) ==
  /\ Len(out) = Len(in) + 3
  /\ \E k \in 1..Len(in) :
       /\ in[k] = ":"
       /\ \A j \in 1..(k - 1) : in[j] # ":" /\ out[j] = in[j]
       /\ out[k] = ";" /\ out[k + 1] = "SCHEDULE-AGENT=" /\ out[k + 2] = "CLIENT"
       /\ \A j \in k..Len(in) : out[j + 3] = in[j]

CarriesScheduleAgent(line) ==
  "SCHEDULE-AGENT=" \in Range(line) \/ "schedule-agent=" \in Range(line)

\* C21: an ATTENDEE line that already carries a SCHEDULE-AGENT parameter, its
\* name in upper or in lower case, is returned as it is, and a second call on
\* the result of the first returns that result.
LinesWithScheduleAgentAreKept ==
  /\ iCalResult.done =>
       LET in == SplitLines(iCalString)
           out == SplitLines(iCalResult.value)
       IN  /\ Len(out) = Len(in)
           /\ \A i \in 1..Len(in) :
                (StartsWithAttendee(in[i]) /\ CarriesScheduleAgent(in[i])) => out[i] = in[i]
  /\ iCalResult.againDone => iCalResult.againValue = iCalResult.value

(***************************************************************************)
(* Specification SpecRecurring: one getOutputRecurring...Bookings call     *)
(***************************************************************************)
\* Most ids one call is given.
MaxBookingIds == 3

BookingIds == {1, 2, 3}

RecurringVariants == {"recurring", "recurringSeated", "createRecurringSeated"}

\* Every list of ids (an id may come twice), every set of bookings that exist,
\* and start times that follow the ids, run against them, or coincide.
RecurringInputs ==
  {[variant |-> v, bookingsIds |-> ids, found |-> f, startTime |-> st] :
     v \in RecurringVariants,
     ids \in UNION {[1..n -> BookingIds] : n \in 0..MaxBookingIds},
     f \in SUBSET BookingIds,
     st \in {<<T1, T2, T2 + 30>>, <<T2 + 30, T2, T1>>, <<T2, T1, T2>>}}

InitRecurring ==
  /\ recurringInput \in RecurringInputs
  /\ recurringRun = NewRecurringRun
  /\ iCalString = <<>>
  /\ iCalResult = [done |-> TRUE, value |-> <<>>, againDone |-> TRUE, againValue |-> <<>>]
  /\ tzInput = [local |-> 0, zone |-> "Etc/GMT", clock |-> 0]
  /\ tzOutput = [done |-> TRUE, utc |-> 0, utcOffset |-> 0]
  /\ input = BaseInput
  /\ repo = BaseRepo
  /\ selectedSlots = {}
  /\ pc = "idle"
  /\ eventType = BaseEventType
  /\ avail = NoAvailability
  /\ availableTimeSlots = <<>>
  /\ reservedSlots = {}
  /\ response = Pending
  /\ effects = NoEffects
  /\ previous = Pending
  /\ peer = NoPeer
  /\ logger = [minLevel |-> repo.env.minLevel]
  /\ limitInput = NoLimitInput
  /\ limitRun = NewLimitRun(limitInput)

SpecRecurring == InitRecurring /\ [][RecurringNext]_vars

\* How often the id is in the list.
TimesRequested(bookingId) ==
  Cardinality({i \in 1..Len(recurringInput.bookingsIds) :
                 recurringInput.bookingsIds[i] = bookingId})

\* How often the id's output is in the result.
TimesReturned(bookingId) ==
  Cardinality({i \in 1..Len(recurringRun.result) : recurringRun.result[i].id = bookingId})

\* C22: a call that returns gives one output for every id of the list, each
\* with its booking's start, in ascending order of start whatever the order
\* of the ids; a call for an id without booking throws and returns no list.
OneOutputPerIdAscendingByStart ==
  /\ recurringRun.pc = "returned" =>
       /\ \A bookingId \in BookingIds : TimesReturned(bookingId) = TimesRequested(bookingId)
       /\ Len(recurringRun.result) = Len(recurringInput.bookingsIds)
       /\ \A i \in 1..Len(recurringRun.result) :
            recurringRun.result[i].start = recurringInput.startTime[recurringRun.result[i].id]
       /\ \A i, j \in 1..Len(recurringRun.result) :
            i < j => recurringRun.result[i].start <= recurringRun.result[j].start
  /\ (\E i \in 1..Len(recurringInput.bookingsIds) :
        recurringInput.bookingsIds[i] \notin recurringInput.found)
       => /\ recurringRun.pc # "returned"
          /\ recurringRun.result = <<>>
  /\ recurringRun.pc = "threw" =>
       recurringInput.bookingsIds[recurringRun.at] \notin recurringInput.found

ReorderedByStartWitness ==
  /\ recurringRun.pc = "returned"
  /\ recurringInput.bookingsIds = <<1, 3, 2>>
  /\ recurringInput.startTime = <<T2 + 30, T2, T1>>
  /\ recurringRun.result =
       <<[id |-> 3, start |-> T1], [id |-> 2, start |-> T2], [id |-> 1, start |-> T2 + 30]>>

(***************************************************************************)
(* Specification SpecTeamLimits: one call of                               *)
(* getBusyTimesFromTeamLimitsForUsers                                      *)
(***************************************************************************)
\* The team's booking limits, the pre-fetched team bookings of the two users
\* and the users for whom checkBookingLimit throws on the year.
TeamLimitInputs ==
  {[users |-> <<1, 2>>, bookingLimits |-> bl, durationLimits |-> NoLimits,
    bookings |-> BookingsOf(c1, c2), dateFrom |-> LimitDateFrom, dateTo |-> LimitDateTo,
    yearLimitReached |-> y, selectedDuration |-> 0, totalYearlyDuration |-> 0] :
     bl \in [day : {0, 1, 2}, week : {0, 2}, month : {0, 3}, year : {0, 3}],
     y \in {{}, {1}, {2}},
     c1 \in [LimitDateFrom..LimitDateTo -> 0..MaxBookings], c2 \in {0, 1}}

InitTeamLimits ==
  /\ limitInput \in {i \in TeamLimitInputs : i.bookingLimits.year # 0 \/ i.yearLimitReached = {}}
  /\ limitRun = NewTeamLimitRun(limitInput)
  /\ input = BaseInput
  /\ repo = BaseRepo
  /\ selectedSlots = {}
  /\ pc = "idle"
  /\ eventType = BaseEventType
  /\ avail = NoAvailability
  /\ availableTimeSlots = <<>>
  /\ reservedSlots = {}
  /\ response = Pending
  /\ effects = NoEffects
  /\ previous = Pending
  /\ peer = NoPeer
  /\ logger = [minLevel |-> repo.env.minLevel]
  /\ iCalString = <<>>
  /\ iCalResult = [done |-> TRUE, value |-> <<>>, againDone |-> TRUE, againValue |-> <<>>]
  /\ recurringInput = NoRecurringInput
  /\ recurringRun = NewRecurringRun
  /\ tzInput = [local |-> 0, zone |-> "Etc/GMT", clock |-> 0]
  /\ tzOutput = [done |-> TRUE, utc |-> 0, utcOffset |-> 0]

SpecTeamLimits == InitTeamLimits /\ [][TeamLimitNext]_vars

\* The users with an entry in the map built so far.
UsersWithEntry == {e.userId : e \in limitRun.userBusyTimesMap}

\* C27: whatever the input, the call returns a map with an entry for every
\* user of the input list, also when the yearly check fails for a user and
\* every year of the window is thereby exhausted; and an entry once set for a
\* user stays in what is returned.
TeamLimitsReturnEntryForEveryUser ==
  limitRun.returned # "none" =>
    /\ limitRun.returned = "map"
    /\ Range(limitInput.users) \subseteq UsersWithEntry

(***************************************************************************)
(* Specification SpecAllLimits: one call of either limit evaluator         *)
(***************************************************************************)
InitAllLimits == InitLimits \/ InitTeamLimits

AllLimitsNext == LimitNext \/ TeamLimitNext

SpecAllLimits == InitAllLimits /\ [][AllLimitsNext]_vars

RECURSIVE SumOfMinutes(_)
SumOfMinutes(bookings) ==
  IF bookings = <<>> THEN 0 ELSE Head(bookings).minutes + SumOfMinutes(Tail(bookings))

\* Summed minutes of the user's pre-fetched bookings inside the period.
MinutesWithin(user, periodStart, unit) ==
  SumOfMinutes(SelectSeq(limitInput.bookings, LAMBDA booking :
                 /\ booking.userId = user
                 /\ periodStart <= booking.day
                 /\ booking.day < NextStart(unit, periodStart)))

\* The period of the key is exhausted on the user's own account: by the
\* user's bookings or yearly check against the booking limit, or by the
\* selected duration and the user's booked minutes against the duration limit.
ExhaustedByOwn(user, key) ==
  LET bookingLimit == limitInput.bookingLimits[key.unit]
      durationLimit == limitInput.durationLimits[key.unit]
  IN  \/ /\ bookingLimit # 0
         /\ IF key.unit = "year"
              THEN user \in limitInput.yearLimitReached
              ELSE BookingsWithin(user, key.start, key.unit) >= bookingLimit
      \/ /\ durationLimit # 0
         /\ \/ limitInput.selectedDuration > durationLimit
            \/ IF key.unit = "year"
                 THEN limitInput.totalYearlyDuration + limitInput.selectedDuration
                        > durationLimit
                 ELSE limitInput.selectedDuration + MinutesWithin(user, key.start, key.unit)
                        > durationLimit

\* The step under way belongs to the pass over all users.
InGlobalPass ==
  limitRun.at <= Len(LimitSteps) /\ LimitStepAt.op \in {"global", "teamGlobal"}

\* C23: every period the pass over all users marked is in the busy set of
\* every user's entry; a period in a user's entry that the pass over all users
\* did not mark is exhausted on that user's own account, so a period exhausted
\* by one user alone is neither in the global state nor in another user's
\* entry; and marks are only added: the global state only grows, and only in
\* the pass over all users, a user's LimitManager only grows from the global
\* state it starts with, and an entry once set is not changed.
GlobalMarksSharedOwnMarksPrivate ==
  /\ [](\A e \in limitRun.userBusyTimesMap :
          /\ limitRun.globalLimitManager \subseteq e.busyTimes
          /\ \A key \in e.busyTimes \ limitRun.globalLimitManager :
               ExhaustedByOwn(e.userId, key))
  /\ [][/\ limitRun.globalLimitManager \subseteq limitRun'.globalLimitManager
        /\ ~InGlobalPass => limitRun'.globalLimitManager = limitRun.globalLimitManager
        /\ IF limitRun.at <= Len(LimitSteps) /\ LimitStepAt.op \in {"begin", "teamBegin"}
             THEN limitRun'.limitManager = limitRun.globalLimitManager
             ELSE limitRun.limitManager \subseteq limitRun'.limitManager
        /\ limitRun.userBusyTimesMap \subseteq limitRun'.userBusyTimesMap]_vars

\* Both users have their entry: March, marked by the pass over all users on
\* three bookings, is in both; Monday 1 April, on which user 1 alone has an
\* hour booked against a duration limit of 60, is in user 1's entry only.
OwnMarkBesideGlobalMarkWitness ==
  /\ limitRun.at = Len(LimitSteps) + 1
  /\ limitRun.returned = "map"
  /\ limitInput.durationLimits.day = 60
  /\ MinutesWithin(1, LimitDateTo, "day") = 60
  /\ limitRun.globalLimitManager = {CreateKey(LimitDateFrom, "month")}
  /\ \E e1, e2 \in limitRun.userBusyTimesMap :
       /\ e1.userId = 1
       /\ e2.userId = 2
       /\ e1.busyTimes = {CreateKey(LimitDateFrom, "month"), CreateKey(LimitDateTo, "day")}
       /\ e2.busyTimes = {CreateKey(LimitDateFrom, "month")}

(***************************************************************************)
(* Specification SpecDurations: one call of getBusyTimesFromLimitsForUsers *)
(* with duration limits                                                    *)
(***************************************************************************)
\* The durations a request selects (0: none); the event type's length is 30.
RequestedDurations == {0, 60, 100}

DurationInputs ==
  {[users |-> <<1, 2>>, bookingLimits |-> bl, durationLimits |-> dl,
    bookings |-> BookingsOf(c1, c2), dateFrom |-> LimitDateFrom, dateTo |-> LimitDateTo,
    yearLimitReached |-> {}, selectedDuration |-> SelectedDuration(duration, 30),
    totalYearlyDuration |-> 0] :
     bl \in {NoLimits, [NoLimits EXCEPT !.week = 2]},
     dl \in [day : {0, 60, 90}, week : {0, 90}, month : {0, 120}, year : {0}],
     duration \in RequestedDurations,
     c1 \in [LimitDateFrom..LimitDateTo -> 0..MaxBookings], c2 \in {0, 1}}

InitDurations ==
  /\ limitInput \in DurationInputs
  /\ limitRun = NewLimitRun(limitInput)
  /\ input = BaseInput
  /\ repo = BaseRepo
  /\ selectedSlots = {}
  /\ pc = "idle"
  /\ eventType = BaseEventType
  /\ avail = NoAvailability
  /\ availableTimeSlots = <<>>
  /\ reservedSlots = {}
  /\ response = Pending
  /\ effects = NoEffects
  /\ previous = Pending
  /\ peer = NoPeer
  /\ logger = [minLevel |-> repo.env.minLevel]
  /\ iCalString = <<>>
  /\ iCalResult = [done |-> TRUE, value |-> <<>>, againDone |-> TRUE, againValue |-> <<>>]
  /\ recurringInput = NoRecurringInput
  /\ recurringRun = NewRecurringRun
  /\ tzInput = [local |-> 0, zone |-> "Etc/GMT", clock |-> 0]
  /\ tzOutput = [done |-> TRUE, utc |-> 0, utcOffset |-> 0]

SpecDurations == InitDurations /\ [][LimitNext]_vars

\* The days, weeks and months.
ShortUnits == {"day", "week", "month"}

\* C30: with a duration limit L on days, weeks or months and the selected
\* duration d, an evaluated period not already busy for the user is marked
\* when d > L, and otherwise exactly when d plus the minutes of the user's
\* bookings inside it is greater than L; in a user's entry, with d > L every
\* period of the granularity in the window is busy, and where no booking limit
\* is set on the granularity a period is marked only if d plus the user's
\* minutes inside it is greater than L, so a total of exactly L leaves it free.
DurationMarksWhenTotalExceeds ==
  /\ [][(/\ limitRun.at <= Len(LimitSteps)
         /\ LimitStepAt.op = "durations"
         /\ LimitStepAt.unit \in ShortUnits
         /\ limitRun'.at # limitRun.at
         /\ ~IsAlreadyBusy(limitRun.limitManager, LimitStepAt.periodStart, LimitStepAt.unit))
          => LET d == limitInput.selectedDuration
                 L == limitInput.durationLimits[LimitStepAt.unit]
                 marked == CreateKey(LimitStepAt.periodStart, LimitStepAt.unit)
                             \in limitRun'.limitManager
             IN  /\ d > L => marked
                 /\ d <= L =>
                      (marked <=> d + MinutesWithin(LimitStepAt.user, LimitStepAt.periodStart,
                                                    LimitStepAt.unit) > L)]_vars
  /\ [](\A e \in limitRun.userBusyTimesMap :
          \A unit \in ShortUnits :
            LET d == limitInput.selectedDuration
                L == limitInput.durationLimits[unit]
            IN  L # 0 =>
                  \A day \in limitInput.dateFrom..limitInput.dateTo :
                    /\ d > L => IsAlreadyBusy(e.busyTimes, StartOf(unit, day), unit)
                    /\ (/\ limitInput.bookingLimits[unit] = 0
                        /\ CreateKey(day, unit) \in e.busyTimes)
                         => d + MinutesWithin(e.userId, StartOf(unit, day), unit) > L)

\* User 1's Monday 1 April has just been evaluated against a limit of 60 a day
\* with one half-hour booking on it and a selected half hour: 60 in all, and
\* the day is left free.
TotalEqualToLimitWitness ==
  /\ limitRun.at > 1
  /\ limitRun.at <= Len(LimitSteps) + 1
  /\ LimitSteps[limitRun.at - 1] = LimitStep("durations", 1, "day", LimitDateTo)
  /\ limitInput.durationLimits.day = 60
  /\ limitInput.selectedDuration + MinutesWithin(1, LimitDateTo, "day") = 60
  /\ MinutesWithin(1, LimitDateTo, "day") > 0
  /\ ~IsAlreadyBusy(limitRun.limitManager, LimitDateTo, "day")

(***************************************************************************)
(* Seat occupancy of the returned slots (specification Spec)               *)
(***************************************************************************)
\* The attendees of the confirmed seated bookings that start at t.
ConfirmedAttendeesAt(t) ==
  LET at == {i \in 1..Len(repo.currentSeats) : repo.currentSeats[i].startTime = t}
  IN  IF at = {} THEN 0 ELSE repo.currentSeats[CHOOSE i \in at : TRUE].attendees

\* The unexpired seat holds of other sessions for the event type that start
\* at t.
SeatHoldsOfOthersAt(t) ==
  {h \in selectedSlots :
     /\ h.isSeat
     /\ h.eventTypeId = eventType.id
     /\ h.slotUtcStartDate = t
     /\ h.releaseAt > Now
     /\ h.uid # input.bookerClientUid}

\* C25: for a seated event, a returned slot starting at t has as attendees the
\* confirmed attendee count at t plus the number of unexpired seat holds of
\* other sessions for the event type at t, each hold counted once, with or
\* without a confirmed booking at t (and no attendees value when both are
\* none); its bookingUid is that of the seat entry at t: the confirmed
\* booking's, or the uuid given to the entry made for the holds.
SeatHoldsCountedOnce ==
  (pc = "done" /\ eventType.seatsPerTimeSlot # 0) =>
    \A slot \in ReturnedSlots :
      LET confirmed == ConfirmedAttendeesAt(slot.time)
          holds == Cardinality(SeatHoldsOfOthersAt(slot.time))
      IN  /\ slot.hasAttendees <=> (confirmed + holds > 0)
          /\ slot.hasAttendees =>
               /\ slot.attendees = confirmed + holds
               /\ HasSeatEntry(avail.currentSeats, slot.time)
               /\ slot.bookingUid = SeatEntryAt(avail.currentSeats, slot.time).uid
               /\ IF confirmed > 0 THEN slot.bookingUid = "booking-1"
                                   ELSE slot.bookingUid \in Uuids

\* The slot at 10:00Z has a confirmed booking of one attendee and one seat hold
\* of another session, the slot at 10:30Z only a seat hold: both are returned,
\* with 2 attendees under the booking's uid and 1 attendee under a new uuid.
HoldOnBookedAndOnFreeSlotWitness ==
  /\ pc = "done"
  /\ eventType.seatsPerTimeSlot = 2
  /\ ConfirmedAttendeesAt(T1) = 1
  /\ Cardinality(SeatHoldsOfOthersAt(T1)) = 1
  /\ Cardinality(SeatHoldsOfOthersAt(T2)) = 1
  /\ \E s1, s2 \in ReturnedSlots :
       /\ s1.time = T1 /\ s1.attendees = 2 /\ s1.bookingUid = "booking-1"
       /\ s2.time = T2 /\ s2.attendees = 1 /\ s2.bookingUid \in Uuids

(***************************************************************************)
(* Specification SpecRestriction: the restriction schedule                 *)
(***************************************************************************)
\* The ranges buildDateRanges may give for the restriction schedule: the first
\* half hour exactly, the second half hour, a range from 10:45Z to 11:40Z, and
\* one that ends a minute before the first slot does.
RestrictionRangePool ==
  {[start |-> T1, end |-> T1 + 30], [start |-> T1 + 30, end |-> T1 + 60],
   [start |-> T1 + 45, end |-> T1 + 100], [start |-> T1 - 10, end |-> T1 + 29]}

\* The host is free from 10:00Z to 12:00Z, slots start every 30 minutes; the
\* event type has a restriction schedule or none, the feature is on or off, the
\* schedule is found or not, with a time zone or without.
RestrictionRepos ==
  {[BaseRepo EXCEPT
      !.free = [u \in UserIds |-> IF u = 1 THEN {[start |-> T1, end |-> T1 + 120]} ELSE {}],
      !.eventType = [BaseEventType EXCEPT !.slotInterval = 30,
                                          !.restrictionScheduleId = id,
                                          !.useBookerTimezone = booker],
      !.restriction = [featureEnabled |-> enabled, found |-> found,
                       hasTimeZone |-> zone, ranges |-> ranges]] :
     id \in {0, 7}, booker \in BOOLEAN, enabled \in BOOLEAN, found \in BOOLEAN,
     zone \in BOOLEAN, ranges \in SUBSET RestrictionRangePool}

\* Requests for the event type's 30 minutes or for 60.
RestrictionInputs == {[BaseInput EXCEPT !.duration = d] : d \in {0, 60}}

InitRestriction == StartsIn(RestrictionInputs, RestrictionRepos, {{}})

SpecRestriction == InitRestriction /\ [][Next]_vars

\* The slots getSlots generates for the computation under way.
GeneratedSlots ==
  GetSlots(EventLength, eventType.offsetStart, avail.aggregatedAvailability,
           eventType.minimumBookingNotice, Frequency)

\* The restriction schedule is set, the feature is enabled and the schedule is
\* found.
RestrictionApplies ==
  /\ eventType.restrictionScheduleId # 0
  /\ repo.restriction.featureEnabled
  /\ repo.restriction.found

\* The schedule found has no time zone and the booker's is not to be used
\* (lines 1317-1322: BAD_REQUEST, no slot list).
RestrictionWithoutTimeZone ==
  RestrictionApplies /\ ~eventType.useBookerTimezone /\ ~repo.restriction.hasTimeZone

\* s is strictly ascending.
IsAscending(s) == \A i, j \in 1..Len(s) : i < j => s[i] < s[j]

\* C26: with a restriction schedule, the feature enabled and the schedule
\* found, a generated slot is in the list passed on exactly when one single
\* restriction range contains [start, start + eventLength], endpoints included;
\* without a restriction schedule, with the feature disabled or the schedule
\* not found, the list passed on is the generated list.  The list passed on
\* has only generated slots, in their order.  (The stage passes no list on, but
\* fails with BAD_REQUEST, exactly when the schedule found has no time zone and
\* the booker's is not used.)
RestrictionKeepsSlotsInsideOneRange ==
  /\ pc \in {"slotsReady", "holdsRead", "cleaned"} =>
       /\ ~RestrictionWithoutTimeZone
       /\ RestrictionApplies =>
            \A t \in Range(GeneratedSlots) :
              t \in Range(availableTimeSlots) <=>
                \E range \in repo.restriction.ranges :
                  range.start <= t /\ t + EventLength <= range.end
       /\ ~RestrictionApplies => availableTimeSlots = GeneratedSlots
       /\ Range(availableTimeSlots) \subseteq Range(GeneratedSlots)
       /\ IsAscending(GeneratedSlots)
       /\ IsAscending(availableTimeSlots)
  /\ (pc = "error" /\ avail # NoAvailability) => RestrictionWithoutTimeZone

\* An hour is requested; the ranges are the two half hours, which together
\* cover the slot at 10:00Z though neither does, and 10:45Z to 11:40Z, which
\* does not reach the end of the slot at 11:00Z: no slot is passed on, while
\* three were generated.
SlotAcrossTwoRangesWitness ==
  /\ pc = "slotsReady"
  /\ RestrictionApplies
  /\ EventLength = 60
  /\ repo.restriction.ranges =
       {[start |-> T1, end |-> T1 + 30], [start |-> T1 + 30, end |-> T1 + 60],
        [start |-> T1 + 45, end |-> T1 + 100]}
  /\ GeneratedSlots = <<T1, T1 + 30, T1 + 60>>
  /\ availableTimeSlots = <<>>

(***************************************************************************)
(* Specification SpecWindow: the requested window and the widened first    *)
(* pass                                                                    *)
(***************************************************************************)
\* Host 1, the qualified round-robin host, is free for an hour on 10, 13 or
\* 18 March; host 2, of the fallback pool only, on 13 March.
WindowQualifiedRanges ==
  {OneHour(At(3, 10, 10)), OneHour(At(3, 13, 10)), OneHour(At(3, 18, 10))}

WindowFallbackRanges == {OneHour(At(3, 13, 14))}

\* Requested windows inside the next two weeks: from now or from 12 March, to
\* 15 March; and one from 12 March to beyond the two weeks.
WindowInputs ==
  {[BaseInput EXCEPT !.startTime = w[1], !.endTime = w[2]] :
     w \in {<<Now, At(3, 15, 0)>>, <<At(3, 12, 0), At(3, 15, 0)>>,
            <<At(3, 12, 0), At(3, 30, 0)>>}}

\* A round-robin event with or without a larger fallback pool, without period
\* bounds or bookable for the next 30 days, with or without two hours' notice.
WindowRepos ==
  {[BaseRepo EXCEPT
      !.eventType = [BaseEventType EXCEPT !.schedulingType = "ROUND_ROBIN",
                                          !.periodType = period,
                                          !.periodDays = 30,
                                          !.minimumBookingNotice = notice],
      !.hosts = [qualifiedRRHosts |-> <<Host(1, FALSE)>>,
                 allFallbackRRHosts |-> pool,
                 fixedHosts |-> <<>>],
      !.free = [u \in UserIds |-> IF u = 1 THEN q ELSE IF u = 2 THEN f ELSE {}]] :
     pool \in {<<Host(1, FALSE)>>, <<Host(1, FALSE), Host(2, FALSE)>>},
     period \in {"UNLIMITED", "ROLLING"},
     notice \in {0, 120},
     q \in SUBSET WindowQualifiedRanges, f \in SUBSET WindowFallbackRanges}

InitWindow == StartsIn(WindowInputs, WindowRepos, {{}})

SpecWindow == InitWindow /\ [][Next]_vars

\* C28: for an event type whose period type is not ROLLING_WINDOW, every slot
\* of the returned map starts within [max(input.startTime, now + minimum
\* booking notice), input.endTime], also when the event has a fallback pool,
\* the first pass ran over the window widened to the next two weeks and the
\* availability was not computed again.
ReturnedSlotsWithinRequestedWindow ==
  (pc = "done" /\ eventType.periodType # "ROLLING_WINDOW") =>
    \A slot \in ReturnedSlots :
      /\ slot.time >= Max(input.startTime, Now + eventType.minimumBookingNotice)
      /\ slot.time <= input.endTime

(***************************************************************************)
(* Specification SpecBounds: rolling periods and the early exit of the     *)
(* bounds filter                                                           *)
(***************************************************************************)
\* The host is free for an hour two hours from now (8 March 14:00Z), late on
\* 9 March, late on 10 March and on 12 March.
BoundsRanges ==
  {OneHour(Now + 120), OneHour(At(3, 9, 23)), OneHour(At(3, 10, 23)),
   OneHour(At(3, 12, 10))}

\* Rolling periods of one to three days, without notice or with two hours of
\* it; the bounds are checked at the time the computation began or, the
\* computation having taken that long, ShortDelay minutes later.
BoundsRepos ==
  {[BaseRepo EXCEPT
      !.eventType = [BaseEventType EXCEPT !.periodType = period,
                                          !.periodDays = days,
                                          !.minimumBookingNotice = notice],
      !.free = [u \in UserIds |-> IF u = 1 THEN free ELSE {}],
      !.clock = [after |-> 0, delay |-> delay]] :
     period \in {"ROLLING", "ROLLING_WINDOW"}, days \in 1..3, notice \in {0, 120},
     delay \in {0, ShortDelay}, free \in SUBSET BoundsRanges}

BoundsInputs ==
  {[BaseInput EXCEPT !.timeZone = zone, !.endTime = At(3, 14, 0)] : zone \in Zones}

InitBounds == StartsIn(BoundsInputs, BoundsRepos, {{}})

SpecBounds == InitBounds /\ [][Next]_vars

\* The map grouped by date that the bounds filter is given.
GroupedSlots == MapSlotsToDate(availableTimeSlots, avail.currentSeats)

\* The slot is neither beyond the future limit nor within the minimum notice.
SlotWithinBounds(slot, periodLimits) ==
  /\ ~IsTimeViolatingFutureLimit(slot.time, periodLimits)
  /\ ~IsTimeOutOfBounds(slot.time, eventType.minimumBookingNotice, Now + repo.clock.delay)

\* Every slot of every date filtered on its own; dates left empty are dropped.
FilterEverySlot(slotsMappedToDate) ==
  LET periodLimits == CalculatePeriodLimits(slotsMappedToDate)
      filtered == [i \in 1..Len(slotsMappedToDate) |->
                     [date |-> slotsMappedToDate[i].date,
                      slots |-> SelectSeq(slotsMappedToDate[i].slots,
                                  LAMBDA slot : SlotWithinBounds(slot, periodLimits))]]
  IN  SelectSeq(filtered, LAMBDA e : Len(e.slots) > 0)

\* C29: for ROLLING and ROLLING_WINDOW the map returned by the loop that stops
\* at the first date after a future-limit violation is the map got by
\* filtering every slot of every date: every slot within the future limit and
\* the minimum notice is returned, no returned slot is beyond the future
\* limit, and no date has an empty list.
EarlyExitReturnsTheFullFilter ==
  (pc = "done" /\ DoesRangeStartFromToday(eventType.periodType)) =>
    LET periodLimits == CalculatePeriodLimits(GroupedSlots)
    IN  /\ response.slots = FilterEverySlot(GroupedSlots)
        /\ \A i \in 1..Len(GroupedSlots) : \A slot \in Range(GroupedSlots[i].slots) :
             SlotWithinBounds(slot, periodLimits) =>
               \E j \in 1..Len(response.slots) :
                 /\ response.slots[j].date = GroupedSlots[i].date
                 /\ slot \in Range(response.slots[j].slots)
        /\ \A j \in 1..Len(response.slots) :
             /\ response.slots[j].slots # <<>>
             /\ \A slot \in Range(response.slots[j].slots) :
                  ~IsTimeViolatingFutureLimit(slot.time, periodLimits)

\* Four dates are grouped: the slots of 8 March are within the notice when
\* the bounds are checked and are dropped, those of 9 March are returned,
\* 10 March is beyond the future limit, and the loop stops without going
\* through 12 March.
StoppedBeforeLastDateWitness ==
  /\ pc = "done"
  /\ eventType.periodType = "ROLLING"
  /\ Len(GroupedSlots) = 4
  /\ \A slot \in Range(GroupedSlots[1].slots) :
       IsTimeOutOfBounds(slot.time, eventType.minimumBookingNotice, Now + repo.clock.delay)
  /\ \A i \in 3..4 : \A slot \in Range(GroupedSlots[i].slots) :
       IsTimeViolatingFutureLimit(slot.time, CalculatePeriodLimits(GroupedSlots))
  /\ Len(response.slots) = 1
  /\ response.slots[1] = GroupedSlots[2]

====
